---- MODULE Spec2Model ----
(***************************************************************************)
(* A model of the NetworkAnalysis program: Node (classes/Node.py), Graph   *)
(* (classes/Graph.py) and GraphManager (classes/GraphManager.py).          *)
(*                                                                         *)
(* Node objects live in `heap`; a Node reference is an index into it (0 is  *)
(* Python's None).  Graph objects are records; Graph.nodes and             *)
(* Node.neighbors are sequences of Node references, so that object         *)
(* identity and aliasing are visible.  Names are sequences of one-letter   *)
(* strings, so that str(), int(), isdigit(), slicing and string comparison *)
(* are computed as Python computes them.                                   *)
(***************************************************************************)
EXTENDS Integers, Sequences, FiniteSets, TLC

VARIABLES heap, graphs, current_graph, new_graph, pc, step, lines_read, comm, returned,
          search, menu

vars == <<heap, graphs, current_graph, new_graph, pc, step, lines_read, comm, returned,
          search, menu>>

(***************************************************************************)
(* Bounds of the model                                                     *)
(***************************************************************************)
MaxNodes == 3       \* distinct node names that occur in an input file
MaxLines == 3       \* lines of an input file
MaxKn == 4          \* largest n of generate_kn_graph
MaxKnm == 2         \* largest n or m of generate_knm_graph
MaxC == 4           \* largest n of generate_c_graph
MaxQ == 2           \* largest n of generate_q_graph
MaxRandomN == 5     \* largest n of generate_kmecki_random_graph
MaxMathN == 4       \* largest n of generate_math_random_graph
MaxSampled == 3     \* largest e of generate_kmecki_random_graph
MaxAnalyzed == 5    \* largest number of nodes of a graph that is analysed
MaxGraphs == 2      \* graphs loaded or generated in one session
MaxEarlier == 1     \* largest number of nodes in memory when a further graph is made
MaxSession == 1     \* largest number of graphs in memory when analyze_graph is called

Infinity == 1000000 \* math.inf: larger than every distance and length

(***************************************************************************)
(* Python values                                                           *)
(***************************************************************************)
None == <<>>                       \* an Optional value is <<>> or <<v>>
Some(v) == <<v>>
\* a list given by its entries
List(entries) == entries \o <<>>
NoNode == 0                        \* None where a Node reference is expected

In(x, list) == \E k \in 1..Len(list) : list[k] = x
Index(list, x) == CHOOSE k \in 1..Len(list) : list[k] = x /\ \A m \in 1..(k - 1) : list[m] /= x
Remove(list, x) ==                 \* list.remove(x): the first occurrence
    LET k == Index(list, x) IN SubSeq(list, 1, k - 1) \o SubSeq(list, k + 1, Len(list))
Reversed(list) == List([k \in 1..Len(list) |-> list[Len(list) + 1 - k]])
Range(list) == {list[k] : k \in 1..Len(list)}

RECURSIVE Filter(_, _)
Filter(list, keep) ==              \* [x for x in list if x in keep]
    IF list = <<>> THEN <<>>
    ELSE IF Head(list) \in keep THEN <<Head(list)>> \o Filter(Tail(list), keep)
    ELSE Filter(Tail(list), keep)

(***************************************************************************)
(* Strings: a string is a sequence of one-letter strings                   *)
(***************************************************************************)
Digits == <<"0", "1", "2", "3", "4", "5", "6", "7", "8", "9">>
Alphabet == Digits \o <<",", "-", ".", "/", "a", "c", "d", "g", "k", "m", "n", "o", "p", "q", "r", "t", "x">>
Ord(ch) == Index(Alphabet, ch)     \* the order of the letters' code points

isdigit(s) == Len(s) > 0 /\ \A k \in 1..Len(s) : In(s[k], Digits)

RECURSIVE int(_)
int(s) ==                          \* int("12") = 12
    IF s = <<>> THEN 0 ELSE 10 * int(SubSeq(s, 1, Len(s) - 1)) + (Index(Digits, s[Len(s)]) - 1)

RECURSIVE str(_)
str(n) ==                          \* str(12) = "12"
    IF n < 10 THEN <<Digits[n + 1]>> ELSE str(n \div 10) \o <<Digits[(n % 10) + 1]>>

RECURSIVE bin(_)
bin(n) ==                          \* bin(n)[2:]
    IF n < 2 THEN <<Digits[n + 1]>> ELSE bin(n \div 2) \o <<Digits[(n % 2) + 1]>>

Repeat(ch, n) == List([k \in 1..(IF n > 0 THEN n ELSE 0) |-> ch])   \* ch * n

RECURSIVE StrLess(_, _)
StrLess(s, t) ==                   \* s < t for Python strings
    IF t = <<>> THEN FALSE
    ELSE IF s = <<>> THEN TRUE
    ELSE IF Head(s) /= Head(t) THEN Ord(Head(s)) < Ord(Head(t))
    ELSE StrLess(Tail(s), Tail(t))

(***************************************************************************)
(* Numbers that are ratios: num / den with den > 0                         *)
(***************************************************************************)
Ratio(num, den) == [num |-> num, den |-> den]
Less(a, b) == a.num * b.den < b.num * a.den
\* round(x, 4), as the integer round(x, 4) * 10000
Round4(x) == (2 * 10000 * x.num + x.den) \div (2 * x.den)

(***************************************************************************)
(* Node.__init__ and Graph.__init__                                        *)
(* (the averages and the density of a Graph, not used by any decision of   *)
(* the program, are left out)                                              *)
(***************************************************************************)
Node(name) ==
    [name |-> name, neighbors |-> <<>>, degree |-> 0,
     clustering_coefficient |-> Some(Ratio(0, 1)), betweeness |-> Some(Ratio(0, 1)),
     bridge_paths |-> {}, closeness |-> Some(Ratio(0, 1)), color |-> "None",
     parent |-> NoNode, distance |-> Infinity, paths |-> <<>>]

Graph(name) ==
    [name |-> name, nodes |-> <<>>, analyzed |-> FALSE, am |-> <<>>,
     max_degree |-> 0, min_degree |-> Infinity, total_degree |-> 0, number_of_edges |-> 0,
     max_betweeness |-> None, min_betweeness |-> None,
     total_paths |-> None, edge_bridges |-> <<>>, edge_betweeness |-> <<>>,
     max_closeness |-> None, min_closeness |-> None,
     max_cluster_coefficient |-> None, min_cluster_coefficient |-> None,
     connected |-> None, connectivity |-> None, partitions |-> <<>>,
     subgraphs |-> <<>>, snips |-> <<>>,
     bipartite |-> None, diameter |-> None,
     hamilton_circuit |-> None, hamilton_path |-> None,
     euler_circuit |-> None, euler_path |-> None, odd_cycle |-> None]

\* Python truth of an Optional[bool]: None and False are false
Truthy(o) == o /= None /\ o[1]

\* Graph.get_node_by_name: the first node of that name, or None
get_node_by_name(h, g, name) ==
    IF \E k \in 1..Len(g.nodes) : h[g.nodes[k]].name = name
    THEN g.nodes[CHOOSE k \in 1..Len(g.nodes) :
                    /\ h[g.nodes[k]].name = name
                    /\ \A m \in 1..(k - 1) : h[g.nodes[m]].name /= name]
    ELSE NoNode

\* the nodes created by `for name in range(n): nodes.append(Node(name=str(name + first)))`
NewNodes(n, first) == List([k \in 1..n |-> Node(str(k - 1 + first))])

(***************************************************************************)
(* GraphManager.load_from_file                                             *)
(***************************************************************************)
\* name = filename.split("/")[-1]; if "." in name: name = name[: name.index(".")]
RECURSIVE AfterLastSlash(_)
AfterLastSlash(filename) ==
    IF In("/", filename) THEN AfterLastSlash(SubSeq(filename, Index(filename, "/") + 1, Len(filename)))
    ELSE filename

GraphNameOfFile(filename) ==
    LET name == AfterLastSlash(filename)
    IN  IF In(".", name) THEN SubSeq(name, 1, Index(name, ".") - 1) ELSE name

\* A faulty variant of lines 44-61, against which C1 is tested: lines 60-61 are left
\* out, so node_1 is never added to the neighbors of node_2
LoadLineOneWay(h, g, nodes) ==
    LET found1 == get_node_by_name(h, g, nodes[1])
        h1 == IF found1 = NoNode THEN Append(h, Node(nodes[1])) ELSE h
        node_1 == IF found1 = NoNode THEN Len(h1) ELSE found1
        g1 == IF found1 = NoNode THEN [g EXCEPT !.nodes = Append(@, node_1)] ELSE g
    IN  IF Len(nodes) = 1 THEN [heap |-> h1, graph |-> g1]
        ELSE
        LET found2 == get_node_by_name(h1, g1, nodes[2])
            h2 == IF found2 = NoNode THEN Append(h1, Node(nodes[2])) ELSE h1
            node_2 == IF found2 = NoNode THEN Len(h2) ELSE found2
            g2 == IF found2 = NoNode THEN [g1 EXCEPT !.nodes = Append(@, node_2)] ELSE g1
            h3 == IF ~In(node_2, h2[node_1].neighbors)
                  THEN [h2 EXCEPT ![node_1].neighbors = Append(@, node_2)] ELSE h2
        IN  [heap |-> h3, graph |-> g2]

\* lines 44-61: one well-formed line (one or two tokens) of the file
LoadLineBody(h, g, nodes) ==
    LET found1 == get_node_by_name(h, g, nodes[1])
        h1 == IF found1 = NoNode THEN Append(h, Node(nodes[1])) ELSE h
        node_1 == IF found1 = NoNode THEN Len(h1) ELSE found1
        g1 == IF found1 = NoNode THEN [g EXCEPT !.nodes = Append(@, node_1)] ELSE g
    IN  IF Len(nodes) = 1 THEN [heap |-> h1, graph |-> g1]
        ELSE
        LET found2 == get_node_by_name(h1, g1, nodes[2])
            h2 == IF found2 = NoNode THEN Append(h1, Node(nodes[2])) ELSE h1
            node_2 == IF found2 = NoNode THEN Len(h2) ELSE found2
            g2 == IF found2 = NoNode THEN [g1 EXCEPT !.nodes = Append(@, node_2)] ELSE g1
            h3 == IF ~In(node_2, h2[node_1].neighbors)
                  THEN [h2 EXCEPT ![node_1].neighbors = Append(@, node_2)] ELSE h2
            h4 == IF ~In(node_1, h3[node_2].neighbors)
                  THEN [h3 EXCEPT ![node_2].neighbors = Append(@, node_1)] ELSE h3
        IN  [heap |-> h4, graph |-> g2]

\* A faulty variant of line 40, against which C12 is tested: only the empty line is
\* refused
MalformedEmpty(nodes) == Len(nodes) < 1

\* line 40: the line is not one or two tokens
Malformed(nodes) == Len(nodes) > 2 \/ Len(nodes) < 1

(***************************************************************************)
(* The generators of GraphManager                                          *)
(***************************************************************************)
\* every generator allocates its Node objects after those already in the heap
Alloc(h, new_nodes) == [heap |-> h \o new_nodes, refs |-> List([k \in 1..Len(new_nodes) |-> Len(h) + k])]

\* GraphManager.generate_kn_graph
generate_kn_graph(h, n) ==
    LET a == Alloc(h, NewNodes(n, 1))
        nodes == a.refs
        h1 == List([id \in 1..Len(a.heap) |->
                 IF id \in Range(nodes) THEN [a.heap[id] EXCEPT !.neighbors = Filter(nodes, Range(nodes) \ {id})]
                 ELSE a.heap[id]])
    IN  [heap |-> h1, graph |-> [Graph(<<"k">> \o str(n)) EXCEPT !.nodes = nodes]]

\* A faulty variant of generate_knm_graph, against which C15 is tested: the right nodes are
\* those of range(n, m) instead of range(n, m + n)
generate_knm_graph_short(h, n, m) ==
    LET a == Alloc(h, NewNodes(n, 1))
        left_nodes == a.refs
        b == Alloc(a.heap, NewNodes(IF m > n THEN m - n ELSE 0, n + 1))
        right_nodes == b.refs
        h1 == List([id \in 1..Len(b.heap) |->
                 IF id \in Range(right_nodes) THEN [b.heap[id] EXCEPT !.neighbors = left_nodes]
                 ELSE IF id \in Range(left_nodes) THEN [b.heap[id] EXCEPT !.neighbors = right_nodes]
                 ELSE b.heap[id]])
    IN  [heap |-> h1,
         graph |-> [Graph(<<"k">> \o str(n) \o <<",">> \o str(m)) EXCEPT !.nodes = left_nodes \o right_nodes]]

\* GraphManager.generate_knm_graph
generate_knm_graph(h, n, m) ==
    LET a == Alloc(h, NewNodes(n, 1))
        left_nodes == a.refs
        b == Alloc(a.heap, NewNodes(m, n + 1))
        right_nodes == b.refs
        h1 == List([id \in 1..Len(b.heap) |->
                 IF id \in Range(right_nodes) THEN [b.heap[id] EXCEPT !.neighbors = left_nodes]
                 ELSE IF id \in Range(left_nodes) THEN [b.heap[id] EXCEPT !.neighbors = right_nodes]
                 ELSE b.heap[id]])
    IN  [heap |-> h1,
         graph |-> [Graph(<<"k">> \o str(n) \o <<",">> \o str(m)) EXCEPT !.nodes = left_nodes \o right_nodes]]

\* GraphManager.generate_c_graph; nodes[i - 1] with i = 0 is Python's nodes[-1], the last node
generate_c_graph(h, n) ==
    LET a == Alloc(h, NewNodes(n, 1))
        nodes == a.refs
        h1 == List([id \in 1..Len(a.heap) |->
                 IF id \in Range(nodes)
                 THEN LET i == Index(nodes, id) - 1
                      IN  [a.heap[id] EXCEPT !.neighbors =
                              <<nodes[((i + 1) % n) + 1], nodes[IF i = 0 THEN n ELSE i]>>]
                 ELSE a.heap[id]])
    IN  [heap |-> h1, graph |-> [Graph(<<"c">> \o str(n)) EXCEPT !.nodes = nodes]]

\* GraphManager.q_has_connection: at most one letter of the two names differs
q_has_connection(h, node_1, node_2) ==
    Cardinality({letter \in 1..Len(h[node_1].name) :
                    h[node_1].name[letter] /= h[node_2].name[letter]}) <= 1

\* the pairs (i, j), i < j, of range(n), in the order of the two nested loops
RECURSIVE PairsFrom(_, _, _)
PairsFrom(i, j, n) ==
    IF i >= n THEN <<>>
    ELSE IF j >= n THEN PairsFrom(i + 1, i + 2, n)
    ELSE <<(<<i, j>>)>> \o PairsFrom(i, j + 1, n)
Pairs(n) == PairsFrom(0, 1, n)

\* a.neighbors.append(b); b.neighbors.append(a), for each pair of `edges` in turn
RECURSIVE AppendEdges(_, _, _)
AppendEdges(h, nodes, edges) ==
    IF edges = <<>> THEN h
    ELSE LET a == nodes[Head(edges)[1] + 1]
             b == nodes[Head(edges)[2] + 1]
             h1 == [h EXCEPT ![a].neighbors = Append(@, b)]
             h2 == [h1 EXCEPT ![b].neighbors = Append(@, a)]
         IN  AppendEdges(h2, nodes, Tail(edges))

\* 2 ** n
RECURSIVE Pow2(_)
Pow2(n) == IF n = 0 THEN 1 ELSE 2 * Pow2(n - 1)

\* GraphManager.generate_q_graph
generate_q_graph(h, n) ==
    LET num_vertices == Pow2(n)
        a == Alloc(h, List([k \in 1..num_vertices |->
                          Node(Repeat("0", n - Len(bin(k - 1))) \o bin(k - 1))]))
        nodes == a.refs
        \* `node_2 in node_1.neighbors` never holds for j > i: each pair is met once
        linked == {p \in Range(Pairs(num_vertices)) :
                      q_has_connection(a.heap, nodes[p[1] + 1], nodes[p[2] + 1])}
    IN  [heap |-> AppendEdges(a.heap, nodes, Filter(Pairs(num_vertices), linked)),
         graph |-> [Graph(<<"q">> \o str(n)) EXCEPT !.nodes = nodes]]

\* GraphManager.generate_petersen_graph
RECURSIVE PetersenLoop(_, _, _, _, _)
PetersenLoop(h, k5, c5, g, i) ==
    IF i >= 5 THEN [heap |-> h, graph |-> g]
    ELSE LET k_node == k5[i + 1]
             c_node == c5[i + 1]
             h1 == [h EXCEPT ![k_node].neighbors = Remove(@, k5[IF i = 0 THEN 5 ELSE i])]
             h2 == [h1 EXCEPT ![k_node].neighbors = Remove(@, k5[((i + 1) % 5) + 1])]
             h3 == [h2 EXCEPT ![k_node].name = <<"k">> \o str(i), ![c_node].name = <<"c">> \o str(i)]
             h4 == [h3 EXCEPT ![k_node].neighbors = Append(@, c_node)]
             h5 == [h4 EXCEPT ![c_node].neighbors = Append(@, k_node)]
         IN  PetersenLoop(h5, k5, c5, [g EXCEPT !.nodes = @ \o <<k_node, c_node>>], i + 1)

generate_petersen_graph(h) ==
    LET k5 == generate_kn_graph(h, 5)
        c5 == generate_c_graph(k5.heap, 5)
    IN  PetersenLoop(c5.heap, k5.graph.nodes, c5.graph.nodes,
                     Graph(<<"p", "e", "t", "e", "r", "s", "e", "n">>), 0)

\* f"random-{len([g for g in self.graphs if g.name[:7] == 'random'])}"
RandomName(gs) ==
    <<"r", "a", "n", "d", "o", "m", "-">> \o
    str(Cardinality({k \in 1..Len(gs) :
            SubSeq(gs[k].name, 1, IF 7 < Len(gs[k].name) THEN 7 ELSE Len(gs[k].name)) = <<"r", "a", "n", "d", "o", "m">>}))

\* GraphManager.generate_kmecki_random_graph; `sampled` is the sequence of pairs that
\* random.sample returned and the while loop let through: e distinct unordered pairs
CappedEdges(n, e) == IF e > (n * n - n) \div 2 THEN (n * n - n) \div 2 ELSE e

generate_kmecki_random_graph(h, gs, n, sampled) ==
    LET a == Alloc(h, NewNodes(n, 0))
    IN  [heap |-> AppendEdges(a.heap, a.refs, sampled),
         graph |-> [Graph(RandomName(gs)) EXCEPT !.nodes = a.refs]]

\* the sequences random.sample can deliver: `e` pairs of distinct nodes, no unordered
\* pair twice
RECURSIVE Samples(_, _, _)
Samples(n, e, used) ==
    IF e = 0 THEN {<<>>}
    ELSE UNION {{<<p>> \o rest : rest \in Samples(n, e - 1, used \cup {p})} :
                   p \in Range(Pairs(n)) \ used}

\* GraphManager.generate_math_random_graph; `drawn` is the set of pairs (i, j) for
\* which random.randint(0, 100) >= p came out true
generate_math_random_graph(h, gs, n, drawn) ==
    LET a == Alloc(h, NewNodes(n, 0))
    IN  [heap |-> AppendEdges(a.heap, a.refs, Filter(Pairs(n), drawn)),
         graph |-> [Graph(RandomName(gs)) EXCEPT !.nodes = a.refs]]

\* the outcomes of the draws: with p = 0 every draw is >= p, with p > 100 none is
Draws(n, p) ==
    IF p <= 0 THEN {Range(Pairs(n))}
    ELSE IF p > 100 THEN {{}}
    ELSE SUBSET Range(Pairs(n))

(***************************************************************************)
(* Graph: degrees, adjacency matrix, edge count, node order                *)
(***************************************************************************)
RECURSIVE SumDegrees(_, _)
SumDegrees(h, nodes) == IF nodes = <<>> THEN 0 ELSE Len(h[Head(nodes)].neighbors) + SumDegrees(h, Tail(nodes))

\* Graph.set_node_degrees
set_node_degrees(h, g) ==
    LET h1 == List([id \in 1..Len(h) |->
                 IF id \in Range(g.nodes) THEN [h[id] EXCEPT !.degree = Len(h[id].neighbors)] ELSE h[id]])
        degrees == {h1[id].degree : id \in Range(g.nodes)}
    IN  [heap |-> h1,
         graph |-> [g EXCEPT !.total_degree = SumDegrees(h, g.nodes),
                             !.max_degree = IF degrees = {} THEN 0
                                            ELSE CHOOSE d \in degrees : \A e \in degrees : e <= d,
                             !.min_degree = IF degrees = {} THEN Infinity
                                            ELSE CHOOSE d \in degrees : \A e \in degrees : d <= e]]

\* Graph.set_adjacency_matrix
set_adjacency_matrix(h, g) ==
    LET n == Len(g.nodes)
    IN  [g EXCEPT !.am = List([i \in 1..n |-> List([j \in 1..n |->
                              IF In(g.nodes[j], h[g.nodes[i]].neighbors) THEN 1 ELSE 0])])]

\* Graph.set_number_of_connections_and_density (the density, a ratio, is not modelled)
set_number_of_connections_and_density(g) == [g EXCEPT !.number_of_edges = g.total_degree \div 2]

\* the sort key of Graph.sort_nodes_by_name: int(name) if every name is digits, else the name
NameBefore(h, nodes, a, b) ==
    IF \A k \in 1..Len(nodes) : isdigit(h[nodes[k]].name)
    THEN int(h[a].name) < int(h[b].name)
    ELSE StrLess(h[a].name, h[b].name)

\* list.sort is stable: an entry goes after the entries that are not greater than it
RECURSIVE SortInsert(_, _, _, _)
SortInsert(h, all, sorted, x) ==
    IF sorted = <<>> THEN <<x>>
    ELSE IF NameBefore(h, all, x, Head(sorted)) THEN <<x>> \o sorted
    ELSE <<Head(sorted)>> \o SortInsert(h, all, Tail(sorted), x)

RECURSIVE SortFrom(_, _, _, _)
SortFrom(h, all, sorted, rest) ==
    IF rest = <<>> THEN sorted
    ELSE SortFrom(h, all, SortInsert(h, all, sorted, Head(rest)), Tail(rest))

\* Graph.sort_nodes_by_name
sort_nodes_by_name(h, g) == [g EXCEPT !.nodes = SortFrom(h, g.nodes, <<>>, g.nodes)]

(***************************************************************************)
(* Graph.dijsktra: the breadth-first search                                *)
(***************************************************************************)
\* Graph.reset_pathfinding
reset_pathfinding(h, g) ==
    List([id \in 1..Len(h) |->
        IF id \in Range(g.nodes) THEN [h[id] EXCEPT !.parent = NoNode, !.distance = Infinity] ELSE h[id]])

\* lines 570-586: the loop over current_node.neighbors, from its k-th entry on
RECURSIVE NeighbourLoop(_, _, _, _, _, _, _)
NeighbourLoop(h, open_list, closed_list, current_node, current_distance, bipartite, k) ==
    IF k > Len(h[current_node].neighbors)
    THEN [heap |-> h, open_list |-> open_list, closed_list |-> closed_list,
          returned |-> FALSE, value |-> NoNode]
    ELSE
    LET neighbour == h[current_node].neighbors[k]
    IN  IF bipartite /\ h[neighbour].color /= "None" /\ h[neighbour].color = h[current_node].color
        THEN [heap |-> h, open_list |-> open_list, closed_list |-> closed_list,
              returned |-> TRUE, value |-> neighbour]
        ELSE
        LET h1 == IF bipartite /\ h[neighbour].color = "None"
                  THEN [h EXCEPT ![neighbour].color =
                            IF h[current_node].color = "cyan" THEN "magenta" ELSE "cyan"]
                  ELSE h
            closer == h1[neighbour].distance > current_distance
            h2 == IF closer
                  THEN [h1 EXCEPT ![neighbour].distance = current_distance,
                                  ![neighbour].parent = current_node]
                  ELSE h1
            reopen == closer /\ In(neighbour, closed_list)
            closed1 == IF reopen THEN Remove(closed_list, neighbour) ELSE closed_list
            open1 == IF reopen THEN Append(open_list, neighbour) ELSE open_list
            open2 == IF closer /\ ~In(neighbour, open1) THEN Append(open1, neighbour) ELSE open1
        IN  NeighbourLoop(h2, open2, closed1, current_node, current_distance, bipartite, k + 1)

\* lines 560-586: the while loop.  The result is a Node ("Node"), a list of nodes
\* ("List") or None ("None", when the loop ends without a return)
RECURSIVE WhileOpen(_, _, _, _, _, _, _)

\* what follows the loop over the neighbors: `r` is what the loop left
AfterNeighbours(r, current_distance, finish, max_distance, bipartite) ==
    IF r.returned
    THEN [heap |-> r.heap, kind |-> "Node", node |-> r.value, list |-> <<>>]
    ELSE WhileOpen(r.heap, r.open_list, r.closed_list, current_distance, finish, max_distance, bipartite)

WhileOpen(h, open_list, closed_list, current_distance, finish, max_distance, bipartite) ==
    IF ~(Len(open_list) > 0 /\ current_distance < max_distance)
    THEN [heap |-> h, kind |-> "None", node |-> NoNode, list |-> <<>>]
    ELSE
    LET current_node == Head(open_list)
        distance1 == current_distance + 1
    IN  IF current_node = finish
        THEN [heap |-> h, kind |-> "Node", node |-> current_node, list |-> <<>>]
        ELSE IF distance1 = max_distance
        THEN [heap |-> h, kind |-> "List", node |-> NoNode,
              list |-> Filter(h[current_node].neighbors,
                              {x \in Range(h[current_node].neighbors) : h[x].distance = Infinity})]
        ELSE
        AfterNeighbours(NeighbourLoop(h, Tail(open_list), closed_list, current_node, distance1,
                                      bipartite, 1),
                        distance1, finish, max_distance, bipartite)

\* Graph.dijsktra
dijsktra(h, g, start, finish, max_distance, bipartite) ==
    LET h1 == reset_pathfinding(h, g)
        h2 == IF bipartite /\ h1[start].color = "None" THEN [h1 EXCEPT ![start].color = "magenta"] ELSE h1
        h3 == [h2 EXCEPT ![start].distance = 0]
    IN  WhileOpen(h3, <<start>>, <<>>, 0, finish, max_distance, bipartite)

\* Graph.get_path_from_final_node: the parent chain of `node`, reversed
RECURSIVE ParentChain(_, _)
ParentChain(h, node) ==
    IF h[node].parent /= NoNode THEN <<node>> \o ParentChain(h, h[node].parent) ELSE <<node>>

get_path_from_final_node(h, node) ==
    IF node = NoNode THEN None ELSE Some(Reversed(ParentChain(h, node)))

(***************************************************************************)
(* Graph.depth_first_search: the backtracking search                       *)
(*                                                                         *)
(* The result is [result, paths]: `result` is the path returned (None if   *)
(* none), `paths` the accumulator set of search type "a", which Python     *)
(* shares between all calls of one search, and `steps` the recursive calls *)
(* that an Euler search has made.                                          *)
(***************************************************************************)
\* sum(neighbor in edge for edge in edges)
TimesIn(neighbor, edges) == Cardinality({k \in 1..Len(edges) : neighbor \in edges[k]})

Euler(search_type) == search_type = "ep" \/ search_type = "ec"
Hamilton(search_type) == search_type = "hp" \/ search_type = "hc"

\* the record of a search: the search `r` was made after the step of an Euler search from
\* `current` to `neighbor` with the edges `edges` consumed, and the steps `before`.
\* `steps` is the history of the recursive calls of an Euler search; it is no value of
\* the program
Stepped(r, current, neighbor, edges, search_type, before) ==
    IF Euler(search_type)
    THEN [r EXCEPT !.steps = @ \cup before \cup {[from |-> current, to |-> neighbor, edges |-> edges]}]
    ELSE r

RECURSIVE depth_first_search(_, _, _, _, _, _, _, _, _)
RECURSIVE ContinueSearch(_, _, _, _, _, _, _, _, _, _)

\* lines 481-526: the loop over current.neighbors, from its k-th entry on
ContinueSearch(h, g, current, path, edges, search_type, max_depth, paths, finish, k) ==
    IF k > Len(h[current].neighbors) THEN [result |-> None, paths |-> paths, steps |-> {}]
    ELSE
    LET neighbor == h[current].neighbors[k]
        next == ContinueSearch(h, g, current, path, edges, search_type, max_depth, paths, finish, k + 1)
    IN  IF Euler(search_type) /\ In({current, neighbor}, edges) THEN next
        ELSE IF /\ Euler(search_type)
                /\ Len(edges) - g.number_of_edges > 1
                /\ h[neighbor].degree - TimesIn(neighbor, edges) = 1 THEN next
        ELSE IF Hamilton(search_type) /\ In(neighbor, path) THEN next
        ELSE IF search_type = "b" /\ In(neighbor, path)
        THEN LET index == Index(path, neighbor) - 1
             IN  IF Len(path) - index > 2 /\ (Len(path) - index) % 2 = 1
                 THEN [result |-> Some(SubSeq(path, index + 1, Len(path)) \o <<neighbor>>),
                       paths |-> paths, steps |-> {}]
                 ELSE next
        ELSE
        LET path_success ==
                depth_first_search(h, g, neighbor, Append(path, neighbor),
                                   IF Euler(search_type) THEN Append(edges, {current, neighbor}) ELSE <<>>,
                                   search_type, max_depth, paths, finish)
        IN  IF search_type /= "a" /\ path_success.result /= None
            THEN Stepped(path_success, current, neighbor, edges, search_type, {})
            ELSE Stepped(ContinueSearch(h, g, current, path, edges, search_type, max_depth,
                                        path_success.paths, finish, k + 1),
                         current, neighbor, edges, search_type, path_success.steps)

\* lines 451-478: the win and lose conditions
depth_first_search(h, g, current, path, edges, search_type, max_depth, paths, finish) ==
    IF Euler(search_type) /\ Len(edges) = g.number_of_edges
    THEN IF search_type = "ec" /\ ~(path[1] = path[Len(path)])
         THEN [result |-> None, paths |-> paths, steps |-> {}]
         ELSE [result |-> Some(path), paths |-> paths, steps |-> {}]
    ELSE IF Hamilton(search_type) /\ Len(path) = Len(g.nodes)
    THEN IF search_type = "hc"
         THEN IF ~In(path[1], h[current].neighbors)
              THEN [result |-> None, paths |-> paths, steps |-> {}]
              ELSE [result |-> Some(Append(path, path[1])), paths |-> paths, steps |-> {}]
         ELSE [result |-> Some(path), paths |-> paths, steps |-> {}]
    ELSE IF search_type = "a" /\ Len(path) >= max_depth
    THEN [result |-> None, paths |-> paths, steps |-> {}]
    ELSE IF search_type = "a" /\ In(finish, h[current].neighbors)
    THEN [result |-> None, paths |-> paths \cup {Append(path, finish)}, steps |-> {}]
    ELSE ContinueSearch(h, g, current, path, edges, search_type, max_depth, paths, finish, 1)

(***************************************************************************)
(* Graph.calculate_shortest_paths_for_all_nodes                            *)
(*                                                                         *)
(* Node.paths is a dict: a sequence of entries [key, value] in insertion   *)
(* order; a value is None (unreachable) or Some(the set of paths).         *)
(***************************************************************************)
Keys(dict) == {dict[k].key : k \in 1..Len(dict)}
Get(dict, key) == dict[CHOOSE k \in 1..Len(dict) : dict[k].key = key].value
\* dict[key] = value: a new key goes last, a known key keeps its place
Set(dict, key, value) ==
    IF key \in Keys(dict)
    THEN List([k \in 1..Len(dict) |-> IF dict[k].key = key THEN [key |-> key, value |-> value] ELSE dict[k]])
    ELSE Append(dict, [key |-> key, value |-> value])

\* len(list(x)[0]) of a set of paths: the paths of one set are equally long
PathLen(value) == Len(CHOOSE p \in value[1] : TRUE)

\* Graph.set_diameter_avg_path_length, lines 135-143: the partition of `node` is the
\* first one that holds it, or a new one; the node's neighbors are added to it
RECURSIVE AddToPartitions(_, _, _)
AddToPartitions(h, partitions, nodes) ==
    IF nodes = <<>> THEN partitions
    ELSE
    LET node == Head(nodes)
        known == \E k \in 1..Len(partitions) : node \in partitions[k]
        parts == IF known THEN partitions ELSE Append(partitions, {node})
        mine == CHOOSE k \in 1..Len(parts) :
                    node \in parts[k] /\ \A m \in 1..(k - 1) : node \notin parts[m]
    IN  \* lines 148-150 rebind the local `partition` to a new set (the union with a set of
        \* paths): the set held in self.partitions is left as the neighbors loop made it
        AddToPartitions(h, [parts EXCEPT ![mine] = @ \cup Range(h[node].neighbors)], Tail(nodes))

\* the lengths that lines 148-153 see: len(path) - 1 of every reachable entry
FoundLengths(h, g) ==
    UNION {{PathLen(h[id].paths[k].value) - 1 :
               k \in {m \in 1..Len(h[id].paths) : h[id].paths[m].value /= None}} :
           id \in Range(g.nodes)}

\* Graph.set_diameter_avg_path_length (the average path length, a ratio, is not modelled)
set_diameter_avg_path_length(h, g) ==
    LET lengths == (IF \E id \in Range(g.nodes) : Len(h[id].neighbors) > 0 THEN {1} ELSE {})
                       \cup FoundLengths(h, g) \cup {0}
    IN  [g EXCEPT !.diameter = Some(CHOOSE d \in lengths : \A e \in lengths : e <= d),
                  !.connected = Some(\A id \in Range(g.nodes) :
                                        \A k \in 1..Len(h[id].paths) : h[id].paths[k].value /= None),
                  !.partitions = AddToPartitions(h, <<>>, g.nodes)]

\* A faulty variant of lines 187-197, against which C9 is tested: the finish node gets
\* the paths as they are, not reversed
StorePathsUnreversed(h, start_node, finish_node, all_paths) ==
    [h EXCEPT ![start_node].paths = Set(@, finish_node, Some(all_paths)),
              ![finish_node].paths = Set(@, start_node, Some(all_paths))]

\* lines 187-197: the two entries of the pair, written from the paths found
StorePaths(h, start_node, finish_node, all_paths) ==
    [h EXCEPT ![start_node].paths = Set(@, finish_node, Some(all_paths)),
              ![finish_node].paths = Set(@, start_node, Some({Reversed(p) : p \in all_paths}))]

\* A faulty variant of lines 179-197, against which C8 is tested: the path of the
\* breadth-first search is stored and no other path is looked for
PathOfFoundOnly(h, g, start_node, finish_node, final, path) ==
    IF path = None
    THEN [h EXCEPT ![start_node].paths = Set(@, finish_node, None),
                   ![finish_node].paths = Set(@, start_node, None)]
    ELSE StorePaths(h, start_node, finish_node, {path[1]})

\* lines 179-197: `h` is the heap the search left, `path` the path of the final node
PathsOfFound(h, g, start_node, finish_node, final, path) ==
    IF path = None
    THEN [h EXCEPT ![start_node].paths = Set(@, finish_node, None),
                   ![finish_node].paths = Set(@, start_node, None)]
    ELSE StorePaths(h, start_node, finish_node,
                    depth_first_search(h, g, start_node, <<start_node>>, <<>>, "a",
                                       Len(path[1]), {path[1]}, final).paths)

\* lines 178-179: `found` is what dijsktra returned
PathOfFound(found, g, start_node, finish_node) ==
    PathsOfFound(found.heap, g, start_node, finish_node, found.node,
                 get_path_from_final_node(found.heap, found.node))

\* lines 173-197: the body of the two loops for one pair (i, j), j > i
ShortestPathsOfPair(h, g, i, j) ==
    LET start_node == g.nodes[i + 1]
        finish_node == g.nodes[j + 1]
    IN  IF In(finish_node, h[start_node].neighbors) \/ finish_node \in Keys(h[start_node].paths)
        THEN h
        ELSE PathOfFound(dijsktra(h, g, start_node, finish_node, Infinity, FALSE),
                         g, start_node, finish_node)

RECURSIVE ShortestPathsOfPairs(_, _, _)
ShortestPathsOfPairs(h, g, pairs) ==
    IF pairs = <<>> THEN h
    ELSE ShortestPathsOfPairs(ShortestPathsOfPair(h, g, Head(pairs)[1], Head(pairs)[2]), g, Tail(pairs))

\* lines 201-203: sorted() is stable; the key is the length of a path, math.inf for None
SortKey(entry) == IF entry.value /= None THEN PathLen(entry.value) ELSE Infinity

RECURSIVE InsertByLength(_, _)
InsertByLength(sorted, entry) ==
    IF sorted = <<>> THEN <<entry>>
    ELSE IF SortKey(entry) < SortKey(Head(sorted)) THEN <<entry>> \o sorted
    ELSE <<Head(sorted)>> \o InsertByLength(Tail(sorted), entry)

RECURSIVE SortByLength(_, _)
SortByLength(sorted, rest) ==
    IF rest = <<>> THEN sorted ELSE SortByLength(InsertByLength(sorted, Head(rest)), Tail(rest))

\* Graph.calculate_shortest_paths_for_all_nodes
\* lines 199-203: `h` is the heap after the loops over the pairs
SortPaths(h, g) ==
    [heap |-> List([id \in 1..Len(h) |->
                 IF id \in Range(g.nodes) THEN [h[id] EXCEPT !.paths = SortByLength(<<>>, @)] ELSE h[id]]),
     graph |-> set_diameter_avg_path_length(h, g)]

calculate_shortest_paths_for_all_nodes(h, g) ==
    SortPaths(ShortestPathsOfPairs(h, g, Pairs(Len(g.nodes))), g)

(***************************************************************************)
(* Node.set_clustering_coefficient, Graph.analyze_cluster_coefficients     *)
(***************************************************************************)
\* Node.set_clustering_coefficient: with degree 0 it returns before any assignment
set_clustering_coefficient(h, node) ==
    IF h[node].degree = 0 THEN h[node].clustering_coefficient
    ELSE
    LET neighbors == h[node].neighbors
        \* the pairs (n, n_of_n) of the two loops with n_of_n in self.neighbors
        twice == Cardinality(UNION {{<<i, j>> : j \in {m \in 1..Len(h[neighbors[i]].neighbors) :
                                                        In(h[neighbors[i]].neighbors[m], neighbors)}} :
                                    i \in 1..Len(neighbors)})
        d == h[node].degree
    IN  \* (twice / 2) / (d * (d - 1) / 2)
        IF d * (d - 1) /= 0 THEN Some(Ratio(twice, d * (d - 1))) ELSE Some(Ratio(0, 1))

\* lines 279-286 of Graph.analyze_cluster_coefficients: both the maximum and the minimum
\* are replaced when they are less than the node's value
RECURSIVE Extremes(_, _, _)
Extremes(values, max, min) ==
    IF values = <<>> THEN [max |-> max, min |-> min]
    ELSE LET v == Head(values)
         IN  IF v = None THEN Extremes(Tail(values), max, min)
             ELSE Extremes(Tail(values),
                           IF max = None \/ Less(max[1], v[1]) THEN v ELSE max,
                           IF min = None \/ Less(min[1], v[1]) THEN v ELSE min)

\* Graph.analyze_cluster_coefficients
analyze_cluster_coefficients(h, g) ==
    LET h1 == List([id \in 1..Len(h) |->
                 IF id \in Range(g.nodes)
                 THEN [h[id] EXCEPT !.clustering_coefficient = set_clustering_coefficient(h, id)]
                 ELSE h[id]])
        ccs == List([k \in 1..Len(g.nodes) |-> h1[g.nodes[k]].clustering_coefficient])
        e == Extremes(ccs, g.max_cluster_coefficient, g.min_cluster_coefficient)
        none == \A k \in 1..Len(ccs) : ccs[k] = None
    IN  [heap |-> h1,
         graph |-> [g EXCEPT !.max_cluster_coefficient = IF none THEN Some(Ratio(0, 1)) ELSE e.max,
                             !.min_cluster_coefficient = IF none THEN Some(Ratio(0, 1)) ELSE e.min]]

(***************************************************************************)
(* Node.set_closeness, Graph.analyze_closessness                           *)
(***************************************************************************)
RECURSIVE TotalLength(_)
TotalLength(paths) ==              \* lines 61-66: len(path) - 1 of one path of every found entry
    IF paths = <<>> THEN 0
    ELSE (IF Head(paths).value = None THEN 0 ELSE PathLen(Head(paths).value) - 1) + TotalLength(Tail(paths))

\* Node.set_closeness: 1 / (total_length / (num_nodes - 1))
set_closeness(h, node, num_nodes) ==
    IF Len(h[node].neighbors) = 0 THEN Some(Ratio(0, 1))
    ELSE Some(Ratio(num_nodes - 1, Len(h[node].neighbors) + TotalLength(h[node].paths)))

\* Node.py line 68 divides by num_nodes - 1: ZeroDivisionError for a lone node with a
\* neighbor
analyze_closessness_raises(h, g) ==
    \E id \in Range(g.nodes) : Len(h[id].neighbors) /= 0 /\ Len(g.nodes) - 1 = 0

\* Graph.analyze_closessness
analyze_closessness(h, g) ==
    LET h1 == List([id \in 1..Len(h) |->
                 IF id \in Range(g.nodes)
                 THEN [h[id] EXCEPT !.closeness = set_closeness(h, id, Len(g.nodes))]
                 ELSE h[id]])
        closer == List([k \in 1..Len(g.nodes) |-> h1[g.nodes[k]].closeness])
        e == Extremes(closer, g.max_closeness, g.min_closeness)
    IN  [heap |-> h1,
         graph |-> [g EXCEPT !.max_closeness = IF closer = <<>> THEN Some(Ratio(0, 1)) ELSE e.max,
                             !.min_closeness = IF closer = <<>> THEN Some(Ratio(0, 1)) ELSE e.min]]

(***************************************************************************)
(* Graph.analyze_betweeness_centrality                                     *)
(*                                                                         *)
(* edge_bridges and edge_betweeness are dicts keyed by a pair of nodes.    *)
(* `for path in node.paths[finish]` iterates over a Python set of tuples   *)
(* of Node objects, whose order follows the objects' addresses: the order  *)
(* in which the edges become keys is any order that some iteration order   *)
(* of those sets produces.                                                 *)
(***************************************************************************)
\* lines 226-229 for one path: an edge met in neither direction becomes a key
RECURSIVE KeysAfterPath(_, _, _)
KeysAfterPath(keys, path, i) ==
    IF i >= Len(path) THEN keys
    ELSE LET edge == <<path[i], path[i + 1]>>
         IN  KeysAfterPath(IF ~In(edge, keys) /\ ~In(Reversed(edge), keys) THEN Append(keys, edge) ELSE keys,
                           path, i + 1)

\* the key sequences after one set of paths was iterated over, in any order
RECURSIVE KeysAfterSet(_, _)
KeysAfterSet(keyseqs, pathset) ==
    IF pathset = {} THEN keyseqs
    ELSE UNION {KeysAfterSet({KeysAfterPath(keys, path, 1) : keys \in keyseqs}, pathset \ {path}) :
                   path \in pathset}

\* the sets of paths in the order of the loops of lines 217-222
RECURSIVE FoundSets(_)
FoundSets(paths) ==
    IF paths = <<>> THEN <<>>
    ELSE (IF Head(paths).value = None THEN <<>> ELSE <<Head(paths).value[1]>>) \o FoundSets(Tail(paths))

RECURSIVE AllFoundSets(_, _)
AllFoundSets(h, nodes) ==
    IF nodes = <<>> THEN <<>> ELSE FoundSets(h[Head(nodes)].paths) \o AllFoundSets(h, Tail(nodes))

RECURSIVE KeysAfterSets(_, _)
KeysAfterSets(keyseqs, sets) ==
    IF sets = <<>> THEN keyseqs ELSE KeysAfterSets(KeysAfterSet(keyseqs, Head(sets)), Tail(sets))

\* every order in which the keys of edge_bridges can come to stand
EdgeKeyOrders(h, g) ==
    KeysAfterSets({List([k \in 1..Len(g.edge_bridges) |-> g.edge_bridges[k].key])}, AllFoundSets(h, g.nodes))

AllFoundPaths(h, g) == UNION Range(AllFoundSets(h, g.nodes))

\* one for each stored set of paths, where line 221 adds the number of its paths
RECURSIVE SumLenOfSets(_)
SumLenOfSets(sets) == IF sets = <<>> THEN 0 ELSE 1 + SumLenOfSets(Tail(sets))

RECURSIVE SumLen(_)
SumLen(sets) == IF sets = <<>> THEN 0 ELSE Cardinality(Head(sets)) + SumLen(Tail(sets))

Uses(path, edge) ==
    \E i \in 1..(Len(path) - 1) : <<path[i], path[i + 1]>> = edge \/ <<path[i + 1], path[i]>> = edge

\* sorted(..., key=value, reverse=True) is stable: equal values keep their order
RECURSIVE InsertByValue(_, _)
InsertByValue(sorted, entry) ==
    IF sorted = <<>> THEN <<entry>>
    ELSE IF Less(Head(sorted).value, entry.value) THEN <<entry>> \o sorted
    ELSE <<Head(sorted)>> \o InsertByValue(Tail(sorted), entry)

RECURSIVE SortByValue(_, _)
SortByValue(sorted, rest) ==
    IF rest = <<>> THEN sorted ELSE SortByValue(InsertByValue(sorted, Head(rest)), Tail(rest))

RECURSIVE SetAll(_, _)
SetAll(dict, entries) ==           \* dict[key] = value for every entry in turn
    IF entries = <<>> THEN dict ELSE SetAll(Set(dict, Head(entries).key, Head(entries).value), Tail(entries))

\* Graph.analyze_betweeness_centrality, the keys of edge_bridges coming in the order `keys`
analyze_betweeness_centrality(h, g, keys) ==
    LET found == AllFoundPaths(h, g)
        total_paths == SumLen(AllFoundSets(h, g.nodes))
        old(edge) == IF edge \in Keys(g.edge_bridges) THEN Get(g.edge_bridges, edge) ELSE {}
        edge_bridges == List([k \in 1..Len(keys) |->
                            [key |-> keys[k],
                             value |-> old(keys[k]) \cup {path \in found : Uses(path, keys[k])}]])
        bridged == List([id \in 1..Len(h) |->
                      IF id \in Range(g.nodes)
                      THEN [h[id] EXCEPT !.bridge_paths =
                               @ \cup {path \in found : \E i \in 2..(Len(path) - 1) : path[i] = id}]
                      ELSE h[id]])
        g1 == [g EXCEPT !.total_paths = Some(total_paths), !.edge_bridges = edge_bridges]
    IN  IF total_paths = 0
        THEN [heap |-> bridged,
              graph |-> [g1 EXCEPT !.max_betweeness = Some(Ratio(0, 1)), !.min_betweeness = Some(Ratio(0, 1))]]
        ELSE
        LET h1 == List([id \in 1..Len(h) |->
                      IF id \in Range(g.nodes)
                      THEN [bridged[id] EXCEPT !.betweeness =
                               Some(Ratio(Cardinality(bridged[id].bridge_paths), total_paths))]
                      ELSE bridged[id]])
            values == List([k \in 1..Len(edge_bridges) |->
                          [key |-> edge_bridges[k].key,
                           value |-> Ratio(Cardinality(edge_bridges[k].value), total_paths)]])
            edge_betweeness == SortByValue(<<>>, SetAll(g.edge_betweeness, values))
            between == {h1[id].betweeness[1] : id \in Range(g.nodes)}
        IN  [heap |-> h1,
             graph |-> [g1 EXCEPT
                 !.edge_betweeness = edge_betweeness,
                 !.max_betweeness = Some(CHOOSE b \in between : \A c \in between : ~Less(b, c)),
                 !.min_betweeness = Some(CHOOSE b \in between : \A c \in between : ~Less(c, b))]]

(***************************************************************************)
(* Graph.analyze_bipartite                                                 *)
(***************************************************************************)
\* lines 303-319: the loop over self.nodes; `returned` is the return of line 315
\* (the graph connected and no node left badly colored)
RECURSIVE ColorNodes(_, _, _, _)

\* lines 312-319: `h` is the heap the search of line 308 left, `odds` is odd_colors_out
\* after lines 309-310
AfterColoring(h, g, nodes, odds) ==
    IF Truthy(g.connected) /\ Len(odds) = 0
    THEN [heap |-> h, odd_colors_out |-> odds, returned |-> TRUE]
    ELSE IF Truthy(g.connected) /\ Len(odds) > 0
    THEN [heap |-> h, odd_colors_out |-> odds, returned |-> FALSE]
    ELSE ColorNodes(h, g, Tail(nodes), odds)

\* lines 308-310: `odd_one` is what dijsktra returned
Colored(odd_one, g, nodes, odd_colors_out) ==
    AfterColoring(odd_one.heap, g, nodes,
                  IF odd_one.kind /= "None" THEN Append(odd_colors_out, odd_one.node)
                  ELSE odd_colors_out)

ColorNodes(h, g, nodes, odd_colors_out) ==
    IF nodes = <<>> THEN [heap |-> h, odd_colors_out |-> odd_colors_out, returned |-> FALSE]
    ELSE IF Len(h[Head(nodes)].neighbors) = 0
    THEN ColorNodes([h EXCEPT ![Head(nodes)].color = "yellow"], g, Tail(nodes), odd_colors_out)
    ELSE Colored(dijsktra(h, g, Head(nodes), NoNode, Infinity, TRUE), g, nodes, odd_colors_out)

\* lines 325-329: self.odd_cycle is assigned for every witness until one yields a cycle
RECURSIVE FindOddCycle(_, _, _)
FindOddCycle(h, g, odd_colors_out) ==
    IF odd_colors_out = <<>> THEN g
    ELSE LET odd == Head(odd_colors_out)
             odd_cycle == depth_first_search(h, g, odd, <<odd>>, <<>>, "b", 0, {}, NoNode).result
         IN  IF odd_cycle /= None
             THEN [g EXCEPT !.odd_cycle = odd_cycle, !.bipartite = Some(FALSE)]
             ELSE FindOddCycle(h, [g EXCEPT !.odd_cycle = None], Tail(odd_colors_out))

\* Graph.analyze_bipartite
\* lines 321-329: `colored` is what the loop over self.nodes left
BipartiteOf(colored, g) ==
    IF colored.returned \/ Len(colored.odd_colors_out) = 0
    THEN [heap |-> colored.heap, graph |-> [g EXCEPT !.bipartite = Some(TRUE)]]
    ELSE [heap |-> colored.heap, graph |-> FindOddCycle(colored.heap, g, colored.odd_colors_out)]

analyze_bipartite(h, g) == BipartiteOf(ColorNodes(h, g, g.nodes, <<>>), g)

(***************************************************************************)
(* Graph.analyze_hamilton                                                  *)
(***************************************************************************)
\* A faulty variant of hamilton_qn, against which C17 is tested: the second half is a
\* copy of the path that is not reversed
hamilton_qn_unreflected(path) ==
    LET good_path == List([k \in 1..Len(path) |-> <<"0">> \o path[k]])
        evil_path == List([k \in 1..Len(path) |-> <<"1">> \o path[k]])
    IN  good_path \o evil_path

\* Graph.hamilton_qn
hamilton_qn(path) ==
    LET good_path == List([k \in 1..Len(path) |-> <<"0">> \o path[k]])
        evil_path == List([k \in 1..Len(path) |-> <<"1">> \o Reversed(path)[k]])
    IN  good_path \o evil_path

RECURSIVE HamiltonNames(_, _)
HamiltonNames(h_path, n) ==        \* lines 352-354
    IF n <= 0 THEN h_path ELSE HamiltonNames(hamilton_qn(h_path), n - 1)

\* `for node in self.nodes: x = search(node); if x is not None: break`: the value x is
\* left with (`before` when self.nodes is empty)
RECURSIVE SearchFromEvery(_, _, _, _, _)
SearchFromEvery(h, g, nodes, search_type, before) ==
    IF nodes = <<>> THEN before
    ELSE LET found == depth_first_search(h, g, Head(nodes), <<Head(nodes)>>, <<>>, search_type,
                                         0, {}, NoNode).result
         IN  IF found /= None THEN found ELSE SearchFromEvery(h, g, Tail(nodes), search_type, found)

DegreeOne(h, g) == {k \in 1..Len(g.nodes) : h[g.nodes[k]].degree = 1}

\* line 350: self.name[0] == "q" and self.name[1:].isdigit()
IsQName(name) == name[1] = "q" /\ isdigit(Tail(name))

\* lines 349-359: the closed-form path of a hypercube
HamiltonOfQ(h, g) ==
    LET n == int(Tail(g.name))
        h_path == HamiltonNames(<<(<<>>)>>, n)
        hp_nodes == List([k \in 1..Len(h_path) |-> get_node_by_name(h, g, h_path[k])])
    IN  [g EXCEPT !.hamilton_path = Some(hp_nodes),
                  !.hamilton_circuit = Some(Append(hp_nodes, hp_nodes[1]))]

\* lines 367-386: the circuit, `hamilton_path` being the path the search found
HamiltonCircuitOf(h, g, hamilton_path) ==
    IF hamilton_path = None THEN None
    ELSE IF In(hamilton_path[1][1], h[hamilton_path[1][Len(hamilton_path[1])]].neighbors)
    THEN Some(Append(hamilton_path[1], hamilton_path[1][1]))
    ELSE IF Cardinality(DegreeOne(h, g)) > 0 THEN None
    ELSE SearchFromEvery(h, g, g.nodes, "hc", g.hamilton_circuit)

HamiltonOfPath(h, g, hamilton_path) ==
    [g EXCEPT !.hamilton_path = hamilton_path,
              !.hamilton_circuit = HamiltonCircuitOf(h, g, hamilton_path)]

\* lines 361-386: the search
HamiltonBySearch(h, g) ==
    HamiltonOfPath(h, g, SearchFromEvery(h, g, g.nodes, "hp", g.hamilton_path))

\* A faulty variant of analyze_hamilton, against which C7 is tested: the search is
\* skipped with two nodes of degree 1 already
analyze_hamilton_two_leaves(h, g) ==
    IF ~Truthy(g.connected) \/ Cardinality(DegreeOne(h, g)) >= 2
    THEN [g EXCEPT !.hamilton_path = None, !.hamilton_circuit = None]
    ELSE IF IsQName(g.name) THEN HamiltonOfQ(h, g)
    ELSE HamiltonBySearch(h, g)

\* Graph.analyze_hamilton
analyze_hamilton(h, g) ==
    IF ~Truthy(g.connected) \/ Cardinality(DegreeOne(h, g)) > 2
    THEN [g EXCEPT !.hamilton_path = None, !.hamilton_circuit = None]
    ELSE IF IsQName(g.name) THEN HamiltonOfQ(h, g)
    ELSE HamiltonBySearch(h, g)

(***************************************************************************)
(* Graph.analyze_euler                                                     *)
(***************************************************************************)
\* A faulty variant of line 406, against which C5 is tested: the nodes of even degree
even_nodes(h, g) == Filter(g.nodes, {id \in Range(g.nodes) : h[id].degree % 2 = 0})

\* line 406
odd_nodes(h, g) == Filter(g.nodes, {id \in Range(g.nodes) : h[id].degree % 2 = 1})

\* random.choice(self.nodes) raises IndexError on an empty list
analyze_euler_raises(h, g) == Truthy(g.connected) /\ Len(odd_nodes(h, g)) = 0 /\ Len(g.nodes) = 0

\* the start nodes the random choices can give: (ep_start, ec_start) of lines 409-410,
\* or the start of line 417 twice; no choice is made in the other cases
EulerStarts(h, g) ==
    IF ~Truthy(g.connected) THEN {<<NoNode, NoNode>>}
    ELSE IF Len(odd_nodes(h, g)) = 0 THEN Range(g.nodes) \X Range(g.nodes)
    ELSE IF Len(odd_nodes(h, g)) = 2 THEN {<<odd_nodes(h, g)[c + 1], odd_nodes(h, g)[c + 1]>> : c \in {0, 1}}
    ELSE {<<NoNode, NoNode>>}

\* Graph.analyze_euler with the random choices `starts`
analyze_euler(h, g, starts) ==
    IF ~Truthy(g.connected) THEN [g EXCEPT !.euler_path = None, !.euler_circuit = None]
    ELSE IF Len(odd_nodes(h, g)) = 0
    THEN [g EXCEPT
            !.euler_path = depth_first_search(h, g, starts[1], <<starts[1]>>, <<>>, "ep", 0, {}, NoNode).result,
            !.euler_circuit = depth_first_search(h, g, starts[2], <<starts[2]>>, <<>>, "ec", 0, {}, NoNode).result]
    ELSE IF Len(odd_nodes(h, g)) = 2
    THEN [g EXCEPT
            !.euler_circuit = None,
            !.euler_path = depth_first_search(h, g, starts[1], <<starts[1]>>, <<>>, "ep", 0, {}, NoNode).result]
    ELSE g

(***************************************************************************)
(* Community detection: Graph.check_if_snip, get_node_copies,              *)
(* delete_edge_from_copy and the analysis of a copy                        *)
(***************************************************************************)
\* Graph.check_if_snip: two edges whose first node is in one partition differ in their
\* rounded betweeness
check_if_snip(graph) ==
    \E p \in 1..Len(graph.partitions) :
        \E a, b \in 1..Len(graph.edge_betweeness) :
            /\ graph.edge_betweeness[a].key[1] \in graph.partitions[p]
            /\ graph.edge_betweeness[b].key[1] \in graph.partitions[p]
            /\ Round4(graph.edge_betweeness[a].value) /= Round4(graph.edge_betweeness[b].value)

\* [n for n in new_nodes if n.name == name][0]
FirstNamed(h, new_nodes, name) ==
    new_nodes[CHOOSE k \in 1..Len(new_nodes) :
                 /\ h[new_nodes[k]].name = name
                 /\ \A m \in 1..(k - 1) : h[new_nodes[m]].name /= name]

\* lines 644-648: the neighbors of the old nodes, rewired to the new nodes
RECURSIVE CopyNeighbors(_, _, _)
CopyNeighbors(h, nodes, new_nodes) ==
    IF nodes = <<>> THEN h
    ELSE LET old_node == Head(nodes)
             new_node == FirstNamed(h, new_nodes, h[old_node].name)
             added == List([k \in 1..Len(h[old_node].neighbors) |->
                               FirstNamed(h, new_nodes, h[h[old_node].neighbors[k]].name)])
         IN  CopyNeighbors([h EXCEPT ![new_node].neighbors = @ \o added], Tail(nodes), new_nodes)

\* A faulty variant of get_node_copies, against which C3 is tested: the list is copied,
\* the Node objects in it are not
get_node_aliases(h, nodes) == [heap |-> h, new_nodes |-> nodes]

\* Graph.get_node_copies
get_node_copies(h, nodes) ==
    LET a == Alloc(h, List([k \in 1..Len(nodes) |-> Node(h[nodes[k]].name)]))
    IN  [heap |-> CopyNeighbors(a.heap, nodes, a.refs), new_nodes |-> a.refs]

\* line 652: the nodes of the copy that carry the name of an end of the edge
evil_nodes(h, edge, nodes_copy) ==
    Filter(nodes_copy, {id \in Range(nodes_copy) : h[id].name \in {h[edge[1]].name, h[edge[2]].name}})

\* evil_nodes[1] is an IndexError, list.remove of an absent entry a ValueError
delete_edge_from_copy_raises(h, edge, nodes_copy) ==
    LET evil == evil_nodes(h, edge, nodes_copy)
    IN  \/ Len(evil) < 2
        \/ ~In(evil[2], h[evil[1]].neighbors)
        \/ ~In(evil[1], h[evil[2]].neighbors)

\* A faulty variant of delete_edge_from_copy, against which C23 is tested: the copy keeps
\* the edge
delete_no_edge_from_copy(h, edge, nodes_copy) == h

\* Graph.delete_edge_from_copy
delete_edge_from_copy(h, edge, nodes_copy) ==
    LET evil == evil_nodes(h, edge, nodes_copy)
        h1 == [h EXCEPT ![evil[1]].neighbors = Remove(@, evil[2])]
    IN  [h1 EXCEPT ![evil[2]].neighbors = Remove(@, evil[1])]

\* max(edge_betweeness, key=edge_betweeness.get): the first key of the greatest value
edge_to_delete(graph) ==
    graph.edge_betweeness[CHOOSE k \in 1..Len(graph.edge_betweeness) :
        /\ \A m \in 1..Len(graph.edge_betweeness) :
              ~Less(graph.edge_betweeness[k].value, graph.edge_betweeness[m].value)
        /\ \A m \in 1..(k - 1) :
              Less(graph.edge_betweeness[m].value, graph.edge_betweeness[k].value)].key

\* lines 701-705 (and steps 0-4 of analyze_graph): degrees to shortest paths
\* one analysis method applied to `r`, the heap and the graph the method before it left
DegreesOf(r) == set_node_degrees(r.heap, r.graph)
MatrixOf(r) == [heap |-> r.heap, graph |-> set_adjacency_matrix(r.heap, r.graph)]
ConnectionsOf(r) == [heap |-> r.heap, graph |-> set_number_of_connections_and_density(r.graph)]
ClusterOf(r) == analyze_cluster_coefficients(r.heap, r.graph)
PathsOf(r) == calculate_shortest_paths_for_all_nodes(r.heap, r.graph)
BetweenessOf(r, keys) == analyze_betweeness_centrality(r.heap, r.graph, keys)
ClosenessOf(r) == analyze_closessness(r.heap, r.graph)
EulerOf(r, starts) == [heap |-> r.heap, graph |-> analyze_euler(r.heap, r.graph, starts)]
HamiltonOf(r) == [heap |-> r.heap, graph |-> analyze_hamilton(r.heap, r.graph)]
BipartiteOfGraph(r) == analyze_bipartite(r.heap, r.graph)
\* A faulty variant of line 711, against which C14 is tested: analyzed is left False
NotAnalyzedOf(r) == [heap |-> r.heap, graph |-> r.graph]

AnalyzedOf(r) == [heap |-> r.heap, graph |-> [r.graph EXCEPT !.analyzed = TRUE]]

AnalyzeToPaths(h, g) ==
    PathsOf(ClusterOf(ConnectionsOf(MatrixOf(DegreesOf([heap |-> h, graph |-> g])))))

\* lines 706-711 (and steps 5-9): betweenness to bipartite, then analyzed = True
AnalyzeFromPaths(h, g, keys, starts) ==
    AnalyzedOf(BipartiteOfGraph(HamiltonOf(EulerOf(
        ClosenessOf(BetweenessOf([heap |-> h, graph |-> g], keys)), starts))))

\* lines 713-722: the copy is kept when it has more partitions than the last kept one,
\* and otherwise when it has more than self
Retained(self, new) ==
    IF Len(self.subgraphs) > 0
       /\ Len(new.partitions) > Len(self.subgraphs[Len(self.subgraphs)].partitions)
    THEN TRUE
    ELSE Len(new.partitions) > Len(self.partitions)

(***************************************************************************)
(* The program: one GraphManager; a graph is loaded or generated, then     *)
(* GraphManager.analyze_graph analyses it step by step.                    *)
(*   pc            where the program is                                    *)
(*   new_graph     the local new_graph of load_from_file                   *)
(*   lines_read    the lines of the file that the load called last has     *)
(*                 read, until another call is made                        *)
(*   returned      the call of the manager that ended last and what it     *)
(*                 returned; None while a call runs                        *)
(*   step          the index i of the loop of analyze_graph                *)
(*   comm          the locals of Graph.analyze_communities                 *)
(*   search        the locals of Graph.dijsktra (SearchSpec only)          *)
(*   menu          the command of StringManager.generate_graph that runs   *)
(*                 or ran last, the graph its generator returned and, in   *)
(*                 `before`, the current graph as the call found it        *)
(*                 (MenuSpec only)                                         *)
(***************************************************************************)
FileNames == {<<"g", ".", "t", "x", "t">>, <<"d", "/", "q", "1", ".", "t", "x", "t">>}
Tokens == {str(k) : k \in 1..MaxNodes}
Lines == {<<>>} \cup {<<a>> : a \in Tokens} \cup {<<a, b>> : a, b \in Tokens}
             \cup {<<a, b, c>> : a, b, c \in Tokens}

NoComm == [current_graph |-> Graph(<<>>), i |-> 0, current_snips |-> <<>>]

\* the locals of Graph.dijsktra, and `dequeued`, the nodes that open_list.pop(0) has
\* returned so far in this call
NoSearch ==
    [start |-> NoNode, finish |-> NoNode, open_list |-> <<>>, closed_list |-> <<>>,
     current_distance |-> 0, dequeued |-> <<>>]

Init ==
    /\ heap = <<>>
    /\ graphs = <<>>
    /\ current_graph = 0
    /\ new_graph = None
    /\ pc = "menu"
    /\ step = 0
    /\ lines_read = 0
    /\ comm = NoComm
    /\ returned = None
    /\ search = NoSearch
    /\ menu = None

\* the call `call` of the manager has returned `value`
Returned(call, value) == Some([call |-> call, value |-> value])

\* the manager is called where the program waits for a command: at the start, or with a
\* graph made and not yet analysed
CanCall ==
    /\ pc = (IF graphs = <<>> THEN "menu" ELSE "loaded")
    /\ Len(graphs) < MaxGraphs
    /\ Len(heap) <= MaxEarlier

\* the Node objects that the graphs of the manager hold: the local graph of a load that
\* fails is dropped, and its nodes with it
RECURSIVE Held(_)
Held(gs) == IF gs = <<>> THEN 0 ELSE Len(Head(gs).nodes) + Held(Tail(gs))

\* the file does not exist: line 63
LoadMissing ==
    /\ CanCall
    /\ returned' = Returned("load_from_file", FALSE)
    /\ lines_read' = 0
    /\ UNCHANGED <<heap, graphs, current_graph, new_graph, pc, step, comm, search, menu>>

\* load_from_file, lines 31-37: the graph is named after the file and the file opened
LoadOpen(filename) ==
    /\ CanCall
    /\ new_graph' = Some(Graph(GraphNameOfFile(filename)))
    /\ pc' = "load_from_file"
    /\ lines_read' = 0
    /\ returned' = None
    /\ UNCHANGED <<heap, graphs, current_graph, step, comm, search, menu>>

\* load_from_file, lines 38-61: one line of the file
LoadLine(nodes) ==
    /\ pc = "load_from_file"
    /\ lines_read < MaxLines
    /\ IF Malformed(nodes)
       THEN \* return False: the local graph and its nodes are dropped
            /\ pc' = (IF graphs = <<>> THEN "menu" ELSE "loaded")
            /\ new_graph' = None
            /\ heap' = SubSeq(heap, 1, Held(graphs))
            /\ lines_read' = lines_read + 1
            /\ returned' = Returned("load_from_file", FALSE)
       ELSE LET r == LoadLineBody(heap, new_graph[1], nodes)
            IN  /\ heap' = r.heap
                /\ new_graph' = Some(r.graph)
                /\ lines_read' = lines_read + 1
                /\ pc' = pc
                /\ returned' = returned
    /\ UNCHANGED <<graphs, current_graph, step, comm, search, menu>>

\* load_from_file, lines 67-69: the end of the file
LoadReturn ==
    /\ pc = "load_from_file"
    /\ graphs' = Append(graphs, new_graph[1])
    /\ current_graph' = Len(graphs) + 1
    /\ new_graph' = None
    /\ lines_read' = 0
    /\ pc' = "loaded"
    /\ returned' = Returned("load_from_file", TRUE)
    /\ UNCHANGED <<heap, step, comm, search, menu>>

\* the arguments generate_graph is called with, and the outcomes of the random draws
GenerateArgs(g_type) ==
    CASE g_type = "q" -> {[n |-> n, m |-> 0, chance |-> <<>>] : n \in 0..MaxQ}
      [] g_type = "c" -> {[n |-> n, m |-> 0, chance |-> <<>>] : n \in 0..MaxC}
      [] g_type = "kn" -> {[n |-> n, m |-> 0, chance |-> <<>>] : n \in 0..MaxKn}
      [] g_type = "knm" -> {[n |-> n, m |-> m, chance |-> <<>>] : n, m \in 0..MaxKnm}
      [] g_type = "p" -> {[n |-> 0, m |-> 0, chance |-> <<>>]}
      [] g_type = "kr" -> UNION {{[n |-> n, m |-> e, chance |-> sampled] :
                                    sampled \in Samples(n, CappedEdges(n, e), {})} :
                                 n \in 0..MaxRandomN, e \in 0..MaxSampled}
      [] g_type = "mr" -> UNION {{[n |-> n, m |-> p, chance |-> drawn] : drawn \in Draws(n, p)} :
                                 n \in 0..MaxMathN, p \in {0, 50, 101}}

\* A faulty variant of lines 262-281, against which C13 is tested: a complete bipartite
\* graph is looked up under the name of the complete graph of its first size
CanonicalNameShort(g_type, a) ==
    CASE g_type = "q" -> <<"q">> \o str(a.n)
      [] g_type = "c" -> <<"c">> \o str(a.n)
      [] g_type = "kn" -> <<"k">> \o str(a.n)
      [] g_type = "knm" -> <<"k">> \o str(a.n)
      [] g_type = "p" -> <<"p", "e", "t", "e", "r", "s", "e", "n">>

\* lines 262-287 of generate_graph: the name looked up in self.graphs, and the generator
CanonicalName(g_type, a) ==
    CASE g_type = "q" -> <<"q">> \o str(a.n)
      [] g_type = "c" -> <<"c">> \o str(a.n)
      [] g_type = "kn" -> <<"k">> \o str(a.n)
      [] g_type = "knm" -> <<"k">> \o str(a.n) \o <<",">> \o str(a.m)
      [] g_type = "p" -> <<"p", "e", "t", "e", "r", "s", "e", "n">>

Generated(h, gs, g_type, a) ==
    CASE g_type = "q" -> generate_q_graph(h, a.n)
      [] g_type = "c" -> generate_c_graph(h, a.n)
      [] g_type = "kn" -> generate_kn_graph(h, a.n)
      [] g_type = "knm" -> generate_knm_graph(h, a.n, a.m)
      [] g_type = "p" -> generate_petersen_graph(h)
      [] g_type = "kr" -> generate_kmecki_random_graph(h, gs, a.n, a.chance)
      [] g_type = "mr" -> generate_math_random_graph(h, gs, a.n, a.chance)

\* GraphManager.generate_graph
GenerateGraph(g_type) ==
    /\ CanCall
    /\ \E a \in GenerateArgs(g_type) :
          IF /\ g_type \in {"q", "c", "kn", "knm", "p"}
             /\ \E k \in 1..Len(graphs) : graphs[k].name = CanonicalName(g_type, a)
          THEN /\ returned' = Returned("generate_graph", FALSE)
               /\ UNCHANGED <<heap, graphs, current_graph, pc>>
          ELSE LET made == Generated(heap, graphs, g_type, a)
               IN  /\ heap' = made.heap
                   /\ graphs' = Append(graphs, made.graph)
                   /\ current_graph' = Len(graphs) + 1
                   /\ pc' = "loaded"
                   /\ returned' = Returned("generate_graph", TRUE)
    /\ lines_read' = 0
    /\ UNCHANGED <<new_graph, step, comm, search, menu>>

\* analyze_graph, lines 311-332, called without a graph: the current graph is sorted
AnalyzeGraph ==
    /\ pc = "loaded"
    /\ Len(graphs[current_graph].nodes) <= MaxAnalyzed
    /\ Len(graphs) <= MaxSession
    /\ graphs' = [graphs EXCEPT ![current_graph] = sort_nodes_by_name(heap, @)]
    /\ pc' = "analyze_graph"
    /\ step' = 0
    /\ lines_read' = 0
    /\ returned' = None
    /\ UNCHANGED <<heap, current_graph, new_graph, comm, search, menu>>

AtStep(i) == pc = "analyze_graph" /\ step = i

\* the loop of analyze_graph goes on to index i; `r` is what the method of this index left
StepTo(i, r) ==
    /\ heap' = r.heap
    /\ graphs' = [graphs EXCEPT ![current_graph] = r.graph]
    /\ step' = i
    /\ UNCHANGED <<current_graph, new_graph, pc, lines_read, comm, returned, search, menu>>

Current == [heap |-> heap, graph |-> graphs[current_graph]]

SetNodeDegrees == AtStep(0) /\ StepTo(1, DegreesOf(Current))

SetAdjacencyMatrix == AtStep(1) /\ StepTo(2, MatrixOf(Current))

SetNumberOfConnections == AtStep(2) /\ StepTo(3, ConnectionsOf(Current))

AnalyzeClusterCoefficients == AtStep(3) /\ StepTo(4, ClusterOf(Current))

CalculateShortestPaths == AtStep(4) /\ StepTo(5, PathsOf(Current))

AnalyzeBetweeness ==
    /\ AtStep(5)
    /\ \E keys \in EdgeKeyOrders(heap, graphs[current_graph]) : StepTo(6, BetweenessOf(Current, keys))

AnalyzeCloseness ==
    /\ AtStep(6)
    /\ ~analyze_closessness_raises(heap, graphs[current_graph])
    /\ StepTo(7, ClosenessOf(Current))

AnalyzeEuler ==
    /\ AtStep(7)
    /\ ~analyze_euler_raises(heap, graphs[current_graph])
    /\ \E starts \in EulerStarts(heap, graphs[current_graph]) : StepTo(8, EulerOf(Current, starts))

AnalyzeHamilton == AtStep(8) /\ StepTo(9, HamiltonOf(Current))

AnalyzeBipartite == AtStep(9) /\ StepTo(10, BipartiteOfGraph(Current))

\* an exception leaves analyze_graph and ends the program
AnalysisRaises ==
    /\ \/ AtStep(6) /\ analyze_closessness_raises(heap, graphs[current_graph])
       \/ AtStep(7) /\ analyze_euler_raises(heap, graphs[current_graph])
    /\ pc' = "raised"
    /\ UNCHANGED <<heap, graphs, current_graph, new_graph, step, lines_read, comm, returned, search, menu>>

\* analyze_communities, lines 685-688
AnalyzeCommunities ==
    /\ AtStep(10)
    /\ graphs' = [graphs EXCEPT ![current_graph].connectivity = None]
    /\ comm' = [current_graph |-> graphs[current_graph], i |-> 1, current_snips |-> <<>>]
    /\ pc' = "analyze_communities"
    /\ UNCHANGED <<heap, current_graph, new_graph, step, lines_read, returned, search, menu>>

\* an exception in one pass of the loop ends the program
SnipRaised == pc' = "raised" /\ UNCHANGED <<heap, graphs, comm>>

\* A faulty variant of lines 713-728, against which C22 is tested: a copy is kept
\* without its snips
SnipKeptAlone(self, h, new, current_snips, kept) ==
    /\ heap' = h
    /\ graphs' = [graphs EXCEPT ![current_graph] =
                    [(IF kept THEN [self EXCEPT !.subgraphs = Append(@, new)] ELSE self)
                     EXCEPT !.connectivity =
                        IF @ = None /\ ~Truthy(new.connected) THEN Some(comm.i) ELSE @]]
    /\ comm' = [current_graph |-> new, i |-> comm.i + 1,
                current_snips |-> IF kept THEN <<>> ELSE current_snips]
    /\ pc' = pc

\* lines 713-728: `new` is the copy analysed, `h` the heap its analysis left
SnipKept(self, h, new, current_snips, kept) ==
    /\ heap' = h
    /\ graphs' = [graphs EXCEPT ![current_graph] =
                    [(IF kept
                      THEN [self EXCEPT !.subgraphs = Append(@, new),
                                        !.snips = Append(@, current_snips)]
                      ELSE self)
                     EXCEPT !.connectivity =
                        IF @ = None /\ ~Truthy(new.connected) THEN Some(comm.i) ELSE @]]
    /\ comm' = [current_graph |-> new, i |-> comm.i + 1,
                current_snips |-> IF kept THEN <<>> ELSE current_snips]
    /\ pc' = pc

SnipAnalyzed(self, done, current_snips) ==
    SnipKept(self, done.heap, done.graph, current_snips, Retained(self, done.graph))

\* lines 706-711: `paths` is what lines 701-705 left
SnipFromPaths(self, paths, current_snips) ==
    IF \/ analyze_closessness_raises(paths.heap, paths.graph)
       \/ analyze_euler_raises(paths.heap, paths.graph)
    THEN SnipRaised
    ELSE \E keys \in EdgeKeyOrders(paths.heap, paths.graph) :
         \E starts \in EulerStarts(paths.heap, paths.graph) :
            SnipAnalyzed(self, AnalyzeFromPaths(paths.heap, paths.graph, keys, starts), current_snips)

\* lines 694-705: `h` is the heap with the edge deleted from the copy
SnipDeleted(self, h, new_nodes, edge) ==
    SnipFromPaths(self, AnalyzeToPaths(h, [Graph(str(comm.i)) EXCEPT !.nodes = new_nodes]),
                  Append(comm.current_snips, <<get_node_by_name(h, self, h[edge[1]].name),
                                               get_node_by_name(h, self, h[edge[2]].name)>>))

\* lines 692-693: `copy` is what get_node_copies returned, `edge` the edge_to_delete
SnipCopy(self, copy, edge) ==
    IF delete_edge_from_copy_raises(copy.heap, edge, copy.new_nodes)
    THEN SnipRaised
    ELSE SnipDeleted(self, delete_edge_from_copy(copy.heap, edge, copy.new_nodes),
                     copy.new_nodes, edge)

\* analyze_communities, lines 689-728: one pass of the while loop
Snip ==
    /\ pc = "analyze_communities"
    /\ check_if_snip(comm.current_graph)
    /\ SnipCopy(graphs[current_graph], get_node_copies(heap, comm.current_graph.nodes),
                edge_to_delete(comm.current_graph))
    /\ UNCHANGED <<current_graph, new_graph, step, lines_read, returned, search, menu>>

\* analyze_communities, lines 730-731, and line 378 of analyze_graph
AnalyzeReturn ==
    /\ pc = "analyze_communities"
    /\ ~check_if_snip(comm.current_graph)
    /\ LET self == graphs[current_graph]
           self1 == IF self.connectivity = None
                    THEN [self EXCEPT !.connectivity =
                             IF Truthy(self.connected) THEN Some(self.min_degree) ELSE Some(0)]
                    ELSE self
       IN  graphs' = [graphs EXCEPT ![current_graph] = [self1 EXCEPT !.analyzed = TRUE]]
    /\ comm' = NoComm
    /\ pc' = "analyzed"
    /\ returned' = (IF menu = None THEN returned       \* StringManager.py lines 710-757
                    ELSE Returned("StringManager.generate_graph", TRUE))
    /\ UNCHANGED <<heap, current_graph, new_graph, step, lines_read, search, menu>>

Next ==
    \/ LoadMissing
    \/ \E filename \in FileNames : LoadOpen(filename)
    \/ \E nodes \in Lines : LoadLine(nodes)
    \/ LoadReturn
    \/ \E g_type \in {"q", "c", "kn", "knm", "p", "kr", "mr"} : GenerateGraph(g_type)
    \/ AnalyzeGraph
    \/ SetNodeDegrees
    \/ SetAdjacencyMatrix
    \/ SetNumberOfConnections
    \/ AnalyzeClusterCoefficients
    \/ CalculateShortestPaths
    \/ AnalyzeBetweeness
    \/ AnalyzeCloseness
    \/ AnalyzeEuler
    \/ AnalyzeHamilton
    \/ AnalyzeBipartite
    \/ AnalysisRaises
    \/ AnalyzeCommunities
    \/ Snip
    \/ AnalyzeReturn

Spec == Init /\ [][Next]_vars

(***************************************************************************)
(* Graph.dijsktra step by step: a graph that generate_graph has built, one *)
(* call dijsktra(start, finish) with the default max_distance and          *)
(* bipartite = False (finish is a node, or None for a call without target),*)
(* and one action for each pass of its while loop.                         *)
(***************************************************************************)
SearchInit ==
    \E g_type \in {"q", "c", "kn", "knm", "p", "kr", "mr"} :
        \E a \in GenerateArgs(g_type) :
            /\ heap = Generated(<<>>, <<>>, g_type, a).heap
            /\ graphs = <<Generated(<<>>, <<>>, g_type, a).graph>>
            /\ current_graph = 1
            /\ new_graph = None
            /\ pc = "loaded"
            /\ step = 0
            /\ lines_read = 0
            /\ comm = NoComm
            /\ returned = Returned("generate_graph", TRUE)
            /\ search = NoSearch
            /\ menu = None

\* A faulty variant of lines 553-559, against which C19 is tested: start.distance is not
\* set to 0
DijsktraCallFar(start, finish) ==
    /\ pc = "loaded"
    /\ heap' = reset_pathfinding(heap, graphs[current_graph])
    /\ search' = [start |-> start, finish |-> finish, open_list |-> <<start>>,
                  closed_list |-> <<>>, current_distance |-> 0, dequeued |-> <<>>]
    /\ pc' = "dijsktra"
    /\ returned' = None
    /\ UNCHANGED <<graphs, current_graph, new_graph, step, lines_read, comm, menu>>

\* dijsktra, lines 551-559
DijsktraCall(start, finish) ==
    /\ pc = "loaded"
    /\ heap' = [reset_pathfinding(heap, graphs[current_graph]) EXCEPT ![start].distance = 0]
    /\ search' = [start |-> start, finish |-> finish, open_list |-> <<start>>,
                  closed_list |-> <<>>, current_distance |-> 0, dequeued |-> <<>>]
    /\ pc' = "dijsktra"
    /\ returned' = None
    /\ UNCHANGED <<graphs, current_graph, new_graph, step, lines_read, comm, menu>>

\* lines 564-586, after the pop: `r` is what the loop over current_node.neighbors left
DijsktraPass(current_node, distance1, r) ==
    IF current_node = search.finish
    THEN /\ pc' = "searched"
         /\ returned' = Returned("dijsktra", current_node)
         /\ search' = [search EXCEPT !.open_list = Tail(@), !.current_distance = distance1,
                                     !.dequeued = Append(@, current_node)]
         /\ UNCHANGED heap
    ELSE /\ heap' = r.heap
         /\ search' = [search EXCEPT !.open_list = r.open_list, !.closed_list = r.closed_list,
                                     !.current_distance = distance1,
                                     !.dequeued = Append(@, current_node)]
         /\ UNCHANGED <<pc, returned>>

\* one pass of the while loop, lines 560-586 (distance1 never is math.inf)
DijsktraWhile ==
    /\ pc = "dijsktra"
    /\ Len(search.open_list) > 0 /\ search.current_distance < Infinity
    /\ DijsktraPass(Head(search.open_list), search.current_distance + 1,
                    NeighbourLoop(heap, Tail(search.open_list), search.closed_list,
                                  Head(search.open_list), search.current_distance + 1, FALSE, 1))
    /\ UNCHANGED <<graphs, current_graph, new_graph, step, lines_read, comm, menu>>

\* line 560: the loop ends with open_list empty, and dijsktra returns None
DijsktraNone ==
    /\ pc = "dijsktra"
    /\ ~(Len(search.open_list) > 0 /\ search.current_distance < Infinity)
    /\ pc' = "searched"
    /\ returned' = Returned("dijsktra", NoNode)
    /\ UNCHANGED <<heap, graphs, current_graph, new_graph, step, lines_read, comm, search, menu>>

SearchNext ==
    \/ \E start \in Range(graphs[current_graph].nodes) :
          \E finish \in Range(graphs[current_graph].nodes) \cup {NoNode} : DijsktraCall(start, finish)
    \/ DijsktraWhile
    \/ DijsktraNone

SearchSpec == SearchInit /\ [][SearchNext]_vars

(***************************************************************************)
(* The generate step of the menu: StringManager.generate_graph, called by  *)
(* main when "g" is entered, with a manager that is empty or holds one     *)
(* graph that generate_math_random_graph made.                             *)
(***************************************************************************)
MaxMenuN == 2       \* largest integer entered in the generate step of the menu

\* the outcomes of generate_math_random_graph that the manager starts with: n and the
\* pairs drawn
CommunityGraphs ==
    {[n |-> 4, drawn |-> {<<0, 1>>, <<0, 2>>, <<1, 3>>}],
     [n |-> 5, drawn |-> {<<0, 1>>, <<0, 2>>, <<0, 3>>, <<1, 2>>, <<1, 4>>}],
     [n |-> 5, drawn |-> {<<0, 1>>, <<0, 4>>, <<1, 2>>, <<1, 4>>, <<3, 4>>}],
     [n |-> 5, drawn |-> {<<0, 1>>, <<0, 2>>, <<0, 3>>, <<0, 4>>, <<1, 2>>}],
     [n |-> 5, drawn |-> {<<0, 1>>, <<0, 2>>, <<0, 3>>, <<1, 2>>, <<2, 4>>}],
     [n |-> 5, drawn |-> {<<0, 1>>, <<0, 2>>, <<0, 3>>, <<1, 2>>, <<1, 3>>}],
     [n |-> 5, drawn |-> {<<0, 1>>, <<1, 3>>, <<1, 4>>, <<2, 3>>, <<2, 4>>}]}

MenuInit ==
    \/ Init
    \/ \E a \in CommunityGraphs :
          /\ heap = generate_math_random_graph(<<>>, <<>>, a.n, a.drawn).heap
          /\ graphs = <<generate_math_random_graph(<<>>, <<>>, a.n, a.drawn).graph>>
          /\ current_graph = 1
          /\ new_graph = None
          /\ pc = "loaded"
          /\ step = 0
          /\ lines_read = 0
          /\ comm = NoComm
          /\ returned = Returned("generate_graph", TRUE)
          /\ search = NoSearch
          /\ menu = None

\* lines 704, 736 and 750: the generator of the manager that the command calls
MenuMade(h, command, n) ==
    CASE command = "kn" -> generate_kn_graph(h, n)
      [] command = "c" -> generate_c_graph(h, n)
      [] command = "q" -> generate_q_graph(h, n)

\* StringManager.generate_graph with one of the commands kn, kxy, c and q and the integer
\* n entered. GraphManager has no generate_kxy_graph: line 722 is an AttributeError. The
\* other generators return a Graph, which is true, so that lines 705-709 are not run and
\* lines 710, 742 and 756 call analyze_graph(sm=self): graph is self.current_graph, and
\* graph.sort_nodes_by_name() is an AttributeError if that is None.
MenuGenerate(command, n) ==
    /\ pc \in {"menu", "loaded", "analyzed"}
    /\ menu = None
    /\ lines_read' = 0
    /\ IF command = "kxy"
       THEN /\ pc' = "raised"
            /\ returned' = None
            /\ UNCHANGED <<heap, graphs, step, menu>>
       ELSE /\ heap' = MenuMade(heap, command, n).heap
            /\ menu' = Some([command |-> command, graph |-> MenuMade(heap, command, n).graph,
                              before |-> IF current_graph = 0 THEN None
                                         ELSE Some(graphs[current_graph])])
            /\ returned' = None
            /\ IF current_graph = 0
               THEN pc' = "raised" /\ UNCHANGED <<graphs, step>>
               ELSE /\ graphs' = [graphs EXCEPT ![current_graph] = sort_nodes_by_name(heap, @)]
                    /\ pc' = "analyze_graph"
                    /\ step' = 0
    /\ UNCHANGED <<current_graph, new_graph, comm, search>>

\* StringManager.generate_graph with the command b, lines 695-696
MenuBack ==
    /\ pc \in {"menu", "loaded", "analyzed"}
    /\ menu = None
    /\ returned /= Returned("StringManager.generate_graph", FALSE)
    /\ returned' = Returned("StringManager.generate_graph", FALSE)
    /\ lines_read' = 0
    /\ UNCHANGED <<heap, graphs, current_graph, new_graph, pc, step, comm, search, menu>>

MenuNext ==
    \/ AnalyzeGraph
    \/ SetNodeDegrees
    \/ SetAdjacencyMatrix
    \/ SetNumberOfConnections
    \/ AnalyzeClusterCoefficients
    \/ CalculateShortestPaths
    \/ AnalyzeBetweeness
    \/ AnalyzeCloseness
    \/ AnalyzeEuler
    \/ AnalyzeHamilton
    \/ AnalyzeBipartite
    \/ AnalyzeCommunities
    \/ Snip
    \/ AnalyzeReturn
    \/ \E command \in {"kn", "kxy", "c", "q"} : \E n \in 0..MaxMenuN : MenuGenerate(command, n)
    \/ MenuBack

MenuSpec == MenuInit /\ [][MenuNext]_vars

(***************************************************************************)
(* The properties                                                          *)
(***************************************************************************)
\* the graphs of the program: those of the manager, the one being loaded, the copy that
\* community detection analysed last and the copies the root graph kept
Built == {graphs[k] : k \in 1..Len(graphs)} \cup {new_graph[k] : k \in 1..Len(new_graph)}
Copies ==
    (IF comm.i > 1 THEN {comm.current_graph} ELSE {})
        \cup UNION {Range(graphs[k].subgraphs) : k \in 1..Len(graphs)}

Symmetric(g) ==
    \A a, b \in Range(g.nodes) : In(b, heap[a].neighbors) <=> In(a, heap[b].neighbors)

DegreesSet(g) == \A a \in Range(g.nodes) : heap[a].degree = Len(heap[a].neighbors)

\* C1: in every graph that load_from_file builds from valid lines, in every graph that a
\* generator returns and in every copy of community detection after its edge is deleted,
\* b is in a.neighbors if and only if a is in b.neighbors; and once set_node_degrees has
\* run on a graph, the degree of each of its nodes is the length of its neighbor list.
C1_SymmetricAdjacency ==
    /\ \A g \in Built \cup Copies : Symmetric(g)
    /\ step >= 1 => DegreesSet(graphs[current_graph])
    /\ \A g \in Copies : DegreesSet(g)

\* C1 at work: a copy of community detection that has lost an edge and kept another, and
\* a root graph that was loaded from a file or generated and has its degrees set
C1_Witness ==
    /\ pc = "analyze_communities"
    /\ comm.i > 1
    /\ \E a \in Range(comm.current_graph.nodes) : heap[a].degree > 0
    /\ \E a \in Range(graphs[current_graph].nodes) : heap[a].degree > 1

\* C2: in every graph that load_from_file or a generator builds, no node is in its own
\* neighbor list.
C2_NoSelfNeighbor ==
    \A g \in Built : \A a \in Range(g.nodes) : ~In(a, heap[a].neighbors)

\* the root graph as community detection has to leave it: the graph without the three
\* fields analyze_communities assigns (and `analyzed`, which analyze_graph sets on return),
\* and its Node objects
RootView ==
    IF current_graph = 0 THEN <<>>
    ELSE <<[graphs[current_graph] EXCEPT !.subgraphs = <<>>, !.snips = <<>>,
                                        !.connectivity = None, !.analyzed = FALSE],
           [k \in 1..Len(graphs[current_graph].nodes) |-> heap[graphs[current_graph].nodes[k]]]>>

\* no Node object of a kept copy is a Node object of the root or of another kept copy
CopiesApart ==
    \A k \in 1..Len(graphs) :
        LET root == graphs[k]
        IN  /\ \A m \in 1..Len(root.subgraphs) :
                  Range(root.subgraphs[m].nodes) \cap Range(root.nodes) = {}
            /\ \A m, n \in 1..Len(root.subgraphs) :
                  m /= n => Range(root.subgraphs[m].nodes) \cap Range(root.subgraphs[n].nodes) = {}

Analyzed == (IF step >= 10 THEN {graphs[current_graph]} ELSE {}) \cup Copies

Adjacent(a, b) == In(b, heap[a].neighbors)
IsWalk(seq) == \A k \in 1..(Len(seq) - 1) : Adjacent(seq[k], seq[k + 1])
Distinct(seq) == \A i, j \in 1..Len(seq) : i /= j => seq[i] /= seq[j]
LoopFree(g) == \A a \in Range(g.nodes) : ~Adjacent(a, a)

\* a graph has no odd cycle exactly if its nodes can be split in two classes with no
\* edge inside a class
NoOddCycle(g) ==
    \E class \in [Range(g.nodes) -> {"magenta", "cyan"}] :
        \A a, b \in Range(g.nodes) : Adjacent(a, b) => class[a] /= class[b]

OddCycleCertificate(cycle) ==
    /\ cycle /= None
    /\ Len(cycle[1]) >= 4 /\ Len(cycle[1]) % 2 = 0
    /\ cycle[1][1] = cycle[1][Len(cycle[1])]
    /\ Distinct(Tail(cycle[1]))
    /\ IsWalk(cycle[1])

TwoColored(g) ==
    /\ \A a \in Range(g.nodes) :
          Len(heap[a].neighbors) > 0 => heap[a].color \in {"magenta", "cyan"}
    /\ \A a, b \in Range(g.nodes) : Adjacent(a, b) => heap[a].color /= heap[b].color

BipartiteRight(g) ==
    Len(g.nodes) >= 1 =>
        /\ g.bipartite /= None
        /\ g.bipartite = Some(TRUE) <=> NoOddCycle(g)
        /\ g.bipartite = Some(FALSE) => OddCycleCertificate(g.odd_cycle)
        /\ g.bipartite = Some(TRUE) => TwoColored(g)

\* C4: after the analysis of a graph with at least one node, bipartite is not None and is
\* True exactly if the graph has no odd cycle; if it is False, odd_cycle is a closed
\* sequence of adjacent nodes, distinct but for its ends, with an odd number (at least 3)
\* of edges; if it is True, every node with a neighbor is magenta or cyan and no edge
\* joins two nodes of one color.
C4_Bipartite == \A g \in Analyzed : BipartiteRight(g)

\* what remains of C4 on the graphs in which no node is its own neighbor
C4_BipartiteLoopFree == \A g \in Analyzed : LoopFree(g) => BipartiteRight(g)

\* the nodes that a walk from a node of `from` reaches
RECURSIVE Reachable(_, _)
Reachable(g, from) ==
    LET more == from \cup {b \in Range(g.nodes) : \E a \in from : Adjacent(a, b)}
    IN  IF more = from THEN from ELSE Reachable(g, more)

Connected(g) == \A a \in Range(g.nodes) : Reachable(g, {a}) = Range(g.nodes)

\* a simple graph: no node is its own neighbor, no neighbor is listed twice
Simple(g) == LoopFree(g) /\ \A a \in Range(g.nodes) : Distinct(heap[a].neighbors)

EdgesOf(g) == {e \in {{a, b} : a, b \in Range(g.nodes)} : \E a, b \in e : e = {a, b} /\ Adjacent(a, b)}
OddDegree(g) == {a \in Range(g.nodes) : Len(heap[a].neighbors) % 2 = 1}

\* the walk uses every edge of the graph once
EulerWalk(g, walk) ==
    /\ Len(walk) >= 1
    /\ IsWalk(walk)
    /\ Len(walk) - 1 = Cardinality(EdgesOf(g))
    /\ {{walk[k], walk[k + 1]} : k \in 1..(Len(walk) - 1)} = EdgesOf(g)

\* the graphs whose analysis has come past analyze_euler
EulerDone == (IF step >= 8 THEN {graphs[current_graph]} ELSE {}) \cup Copies

EulerRight(g) ==
    /\ g.euler_circuit /= None <=> (Connected(g) /\ OddDegree(g) = {})
    /\ g.euler_path /= None <=> (Connected(g) /\ Cardinality(OddDegree(g)) \in {0, 2})
    /\ g.euler_circuit /= None =>
          EulerWalk(g, g.euler_circuit[1]) /\ g.euler_circuit[1][1] = g.euler_circuit[1][Len(g.euler_circuit[1])]
    /\ g.euler_path /= None =>
          /\ EulerWalk(g, g.euler_path[1])
          /\ Cardinality(OddDegree(g)) = 2 => g.euler_path[1][1] \in OddDegree(g)

\* C5: for a simple graph with at least one node and whatever nodes random.choice gives:
\* after analyze_euler, euler_circuit is not None exactly if the graph is connected and
\* every degree is even, euler_path is not None exactly if it is connected and has no or
\* two nodes of odd degree; a result is a walk along edges that uses every edge once, a
\* circuit ends where it starts, a path of a graph with two odd nodes starts at one.
C5_Euler == \A g \in EulerDone : (Simple(g) /\ Len(g.nodes) >= 1) => EulerRight(g)

\* C5 at work: an Euler path between the two odd nodes of a simple graph, over three or
\* more edges, and no circuit
C5_Witness ==
    /\ step >= 8
    /\ Simple(graphs[current_graph])
    /\ Cardinality(OddDegree(graphs[current_graph])) = 2
    /\ graphs[current_graph].euler_path /= None
    /\ Len(graphs[current_graph].euler_path[1]) >= 4
    /\ graphs[current_graph].euler_circuit = None

\* C5 at work on the other side: a circuit found from a start node chosen at random
C5_WitnessCircuit ==
    /\ step >= 8
    /\ Simple(graphs[current_graph])
    /\ graphs[current_graph].euler_circuit /= None
    /\ Len(graphs[current_graph].euler_circuit[1]) >= 4

\* the graphs whose analysis has come past analyze_hamilton
HamiltonDone == (IF step >= 9 THEN {graphs[current_graph]} ELSE {}) \cup Copies

\* `seq` lists every node of the graph once
ListsAllNodes(g, seq) ==
    /\ Len(seq) = Len(g.nodes)
    /\ \A k \in 1..Len(seq) : seq[k] \in Range(g.nodes)
    /\ Distinct(seq)

HamiltonValid(g) ==
    /\ g.hamilton_path /= None =>
          ListsAllNodes(g, g.hamilton_path[1]) /\ IsWalk(g.hamilton_path[1])
    /\ g.hamilton_circuit /= None =>
          /\ Len(g.hamilton_circuit[1]) = Len(g.nodes) + 1
          /\ ListsAllNodes(g, SubSeq(g.hamilton_circuit[1], 1, Len(g.nodes)))
          /\ g.hamilton_circuit[1][Len(g.nodes) + 1] = g.hamilton_circuit[1][1]
          /\ IsWalk(g.hamilton_circuit[1])

\* C6: a hamilton_path that is not None lists every node of the graph once, consecutive
\* entries adjacent; a hamilton_circuit that is not None has n + 1 entries, the first n
\* being the n nodes of the graph, the last being the first, consecutive entries
\* adjacent: whatever the name of the graph and however it was built.
C6_HamiltonValid == \A g \in HamiltonDone : HamiltonValid(g)

\* the orders of all nodes of the graph
Orders(g) == {seq \in [1..Len(g.nodes) -> Range(g.nodes)] : Distinct(seq)}
HasHamiltonPath(g) == Len(g.nodes) >= 1 /\ \E seq \in Orders(g) : IsWalk(seq)
HasHamiltonCircuit(g) == Len(g.nodes) >= 1 /\ \E seq \in Orders(g) : IsWalk(Append(seq, seq[1]))

\* C7: for a graph whose name is not q<digits>: after analyze_hamilton, hamilton_path is
\* not None exactly if some order v1..vn of all its n >= 1 nodes has consecutive nodes
\* adjacent, and hamilton_circuit is not None exactly if some order has v1..vn,v1 so; the
\* skip rules and the shortcut suppress no path and no circuit.
C7_HamiltonComplete ==
    \A g \in HamiltonDone :
        ~IsQName(g.name) =>
            /\ g.hamilton_path /= None <=> HasHamiltonPath(g)
            /\ g.hamilton_circuit /= None <=> HasHamiltonCircuit(g)

\* C7 at work: a graph with two nodes of degree 1 whose path the search found, and whose
\* circuit search was skipped
C7_Witness ==
    /\ step >= 9
    /\ ~IsQName(graphs[current_graph].name)
    /\ Len(graphs[current_graph].nodes) >= 3
    /\ Cardinality(DegreeOne(heap, graphs[current_graph])) = 2
    /\ graphs[current_graph].hamilton_path /= None
    /\ graphs[current_graph].hamilton_circuit = None

\* the graphs whose analysis has come past calculate_shortest_paths_for_all_nodes
PathsDone == (IF step >= 5 THEN {graphs[current_graph]} ELSE {}) \cup Copies

\* the walks of `len` nodes from a to b, and the least number of nodes of a walk from a to b
Walks(g, a, b, len) ==
    {seq \in [1..len -> Range(g.nodes)] : seq[1] = a /\ seq[len] = b /\ IsWalk(seq)}
Shortest(g, a, b) ==
    CHOOSE len \in 1..Len(g.nodes) :
        /\ Walks(g, a, b, len) /= {}
        /\ \A less \in 1..(len - 1) : Walks(g, a, b, less) = {}

\* C8: after calculate_shortest_paths_for_all_nodes, for nodes a /= b that are not
\* adjacent and reach each other, a.paths[b] is the set of all the paths from a to b with
\* the least number of edges: none is missing, and each stored sequence is one.
C8_AllShortestPaths ==
    \A g \in PathsDone : \A a, b \in Range(g.nodes) :
        (a /= b /\ ~Adjacent(a, b) /\ b \in Reachable(g, {a})) =>
            /\ b \in Keys(heap[a].paths)
            /\ Get(heap[a].paths, b) = Some(Walks(g, a, b, Shortest(g, a, b)))

\* C8 at work: a pair of nodes with more than one shortest path between them
C8_Witness ==
    /\ step >= 5
    /\ \E a \in Range(graphs[current_graph].nodes) : \E k \in 1..Len(heap[a].paths) :
          /\ heap[a].paths[k].value /= None
          /\ Cardinality(heap[a].paths[k].value[1]) >= 2

\* the graphs whose analysis has not come to calculate_shortest_paths_for_all_nodes
PathsAhead == IF step <= 4 THEN Built ELSE {}

\* C9: before calculate_shortest_paths_for_all_nodes the paths of every node are empty;
\* after it the keys of a.paths are the other nodes that are not neighbors of a, each
\* once; a.paths[b] is None exactly if b.paths[a] is; and otherwise b.paths[a] is the set
\* of the reversals of the sequences of a.paths[b].
C9_PathsKeys ==
    /\ \A g \in PathsAhead : \A a \in Range(g.nodes) : heap[a].paths = <<>>
    /\ \A g \in PathsDone : \A a \in Range(g.nodes) :
          /\ Keys(heap[a].paths) = {b \in Range(g.nodes) : b /= a /\ ~Adjacent(a, b)}
          /\ Len(heap[a].paths) = Cardinality(Keys(heap[a].paths))
          /\ \A b \in Keys(heap[a].paths) :
                /\ a \in Keys(heap[b].paths)
                /\ Get(heap[a].paths, b) = None <=> Get(heap[b].paths, a) = None
                /\ Get(heap[a].paths, b) /= None =>
                      Get(heap[b].paths, a)[1] = {Reversed(p) : p \in Get(heap[a].paths, b)[1]}

\* C9 at work: a node with an unreachable node and a reachable one among its keys
C9_Witness ==
    /\ step >= 5
    /\ \E a \in Range(graphs[current_graph].nodes) :
          /\ \E b \in Keys(heap[a].paths) : Get(heap[a].paths, b) = None
          /\ \E b \in Keys(heap[a].paths) :
                Get(heap[a].paths, b) /= None /\ \E p \in Get(heap[a].paths, b)[1] : Reversed(p) /= p

\* C10: after the shortest-path pass, in whatever order the nodes are listed, the
\* partitions are pairwise disjoint sets of nodes that cover the nodes, each the set of
\* nodes that one of its nodes reaches; so a graph with a node has one partition exactly
\* if it is connected.
C10_Partitions ==
    \A g \in PathsDone :
        /\ \A m, n \in 1..Len(g.partitions) : m /= n => g.partitions[m] \cap g.partitions[n] = {}
        /\ UNION Range(g.partitions) = Range(g.nodes)
        /\ \A m \in 1..Len(g.partitions) : \A a \in g.partitions[m] :
              a \in Range(g.nodes) /\ g.partitions[m] = Reachable(g, {a})
        /\ Len(g.nodes) >= 1 => (Len(g.partitions) = 1 <=> Connected(g))

\* the least degree of the graph, counted on the neighbor lists
LeastDegree(g) ==
    CHOOSE d \in {Len(heap[a].neighbors) : a \in Range(g.nodes)} :
        \A a \in Range(g.nodes) : d <= Len(heap[a].neighbors)

\* a pass of the loop of analyze_communities: connectivity, still None, becomes the index
\* of the pass if the copy of this pass is disconnected, and is kept otherwise
FirstDisconnection ==
    (pc = "analyze_communities" /\ pc' = "analyze_communities") =>
        graphs'[current_graph].connectivity =
            IF graphs[current_graph].connectivity = None /\ (~Connected(comm.current_graph))'
            THEN Some(comm.i)
            ELSE graphs[current_graph].connectivity

\* the return of analyze_communities: connectivity, still None, becomes the least degree
\* of a connected root
NeverDisconnected ==
    (pc = "analyze_communities" /\ pc' = "analyzed") =>
        graphs'[current_graph].connectivity =
            IF graphs[current_graph].connectivity /= None THEN graphs[current_graph].connectivity
            ELSE IF Connected(graphs[current_graph]) THEN Some(LeastDegree(graphs[current_graph]))
            ELSE Some(0)

\* connectivity is None and the passes are counted from 1 when the loop is entered
CommunitiesEntered ==
    (pc /= "analyze_communities" /\ pc' = "analyze_communities") =>
        graphs'[current_graph].connectivity = None /\ comm'.i = 1

\* a disconnected root ends with connectivity 0
DisconnectedRootZero ==
    (pc = "analyzed" /\ ~Connected(graphs[current_graph])) =>
        graphs[current_graph].connectivity = Some(0)

\* C11: after analyze_communities on the root graph, connectivity is 0 if the root is
\* disconnected; if the root is connected it is the index (from 1) of the first pass of
\* the loop whose copy is disconnected, and the least degree of the root if no pass
\* disconnects the copy (the loop not running at all included).
C11_Connectivity ==
    /\ [][CommunitiesEntered /\ FirstDisconnection /\ NeverDisconnected]_vars
    /\ []DisconnectedRootZero

\* what remains of C11 for the connected roots, and for the passes of every root
C11_ConnectedRoot == [][CommunitiesEntered /\ FirstDisconnection /\ NeverDisconnected]_vars

\* the manager as the caller sees it, and what a call gave back
Manager == <<graphs, current_graph>>
Failed(call) == <<[call |-> call, value |-> FALSE]>>
Succeeded(call) == <<[call |-> call, value |-> TRUE]>>

\* a call of load_from_file ends without a graph: on a line of no token or of more than
\* two tokens, or on a file that does not exist
LoadFails ==
    \/ \E nodes \in Lines : (Len(nodes) = 0 \/ Len(nodes) > 2) /\ LoadLine(nodes)
    \/ LoadMissing

\* C12: a line of no token or of more than two tokens, or a file that does not exist,
\* makes load_from_file return False with the list of graphs and the current graph of the
\* manager as they were before the call, however many well-formed lines came before; the
\* manager changes during a load only when the load succeeds, which appends the graph and
\* makes it current.
C12_LoadAllOrNothing ==
    [][/\ LoadFails => (returned' = Failed("load_from_file") /\ pc' /= "load_from_file"
                        /\ Manager' = Manager)
       /\ (pc = "load_from_file" /\ Manager' /= Manager) =>
              /\ returned' = Succeeded("load_from_file")
              /\ graphs' = Append(graphs, new_graph[1])
              /\ current_graph' = Len(graphs')]_vars

\* C12 at work: with a graph in memory, a load has failed on its third line
C12_Witness ==
    /\ returned = Failed("load_from_file")
    /\ pc = "loaded"
    /\ new_graph = None
    /\ lines_read = 3
    /\ Len(graphs) = 1
    /\ current_graph = 1

Names == {graphs[k].name : k \in 1..Len(graphs)}

\* the graph that a step has appended to the list and made current
Appended == graphs'[Len(graphs')]

\* the names of the families q, c, kn, knm and p; the other names that generate_graph
\* gives begin with "random-"
Canonical(name) == name[1] \in {"q", "c", "k", "p"}

\* C13: a call of generate_graph for a family q, c, kn, knm or p either returns False and
\* leaves the list of graphs and the current graph as they were, or appends a graph whose
\* name no graph of the list bears and makes it current; so that a name that is in the
\* list makes the call return False, and calls of generate_graph never put two graphs of
\* one canonical name in the list.
C13_NoDuplicate ==
    [][/\ returned' = Failed("generate_graph") => Manager' = Manager
       /\ returned' = Succeeded("generate_graph") =>
              /\ graphs' = Append(graphs, Appended)
              /\ current_graph' = Len(graphs')
              /\ Canonical(Appended.name) => Appended.name \notin Names]_vars

\* C13 at work: the hypercube q0 is in the list, and a call of generate_graph has been
\* refused
C13_Witness ==
    /\ returned = Failed("generate_graph")
    /\ Names = {<<"q", "0">>}
    /\ current_graph = 1

\* what the steps of analyze_graph leave behind on the graph `g`: the fields that a step
\* assigns have their initial values before the step and are set after it
NotYet(g, i) ==
    CASE i = 0 -> g.total_degree = 0 /\ \A a \in Range(g.nodes) : heap[a].degree = 0
      [] i = 1 -> g.am = <<>>
      [] i = 2 -> g.number_of_edges = 0
      [] i = 3 -> g.max_cluster_coefficient = None /\ g.min_cluster_coefficient = None
      [] i = 4 -> /\ g.connected = None /\ g.diameter = None /\ g.partitions = <<>>
                  /\ \A a \in Range(g.nodes) : heap[a].paths = <<>>
      [] i = 5 -> g.total_paths = None /\ g.edge_bridges = <<>> /\ g.edge_betweeness = <<>>
      [] i = 6 -> g.max_closeness = None /\ g.min_closeness = None
      [] i = 7 -> g.euler_path = None /\ g.euler_circuit = None
      [] i = 8 -> g.hamilton_path = None /\ g.hamilton_circuit = None
      [] i = 9 -> /\ g.bipartite = None /\ g.odd_cycle = None
                  /\ \A a \in Range(g.nodes) : heap[a].color = "None"
      [] i = 10 -> g.connectivity = None /\ g.subgraphs = <<>> /\ g.snips = <<>>

Done(g, i) ==
    CASE i = 0 -> g.total_degree = SumDegrees(heap, g.nodes) /\ DegreesSet(g)
      [] i = 1 -> Len(g.am) = Len(g.nodes)
      [] i = 2 -> g.number_of_edges = g.total_degree \div 2
      [] i = 3 -> g.max_cluster_coefficient /= None /\ g.min_cluster_coefficient /= None
      [] i = 4 -> g.connected /= None /\ g.diameter /= None
      [] i = 5 -> g.total_paths /= None
      [] i = 6 -> g.max_closeness /= None /\ g.min_closeness /= None
      [] i \in 7..9 -> TRUE

\* the root graph at index `step` of the loop of analyze_graph
StepsInOrder ==
    pc = "analyze_graph" =>
        /\ step \in 0..10
        /\ \A i \in 0..10 : i >= step => NotYet(graphs[current_graph], i)
        /\ \A i \in 0..9 : i < step => Done(graphs[current_graph], i)

\* the loop goes from one index to the next, and community detection starts from the
\* last only
OneStepAtATime ==
    /\ (pc = "analyze_graph" /\ pc' = "analyze_graph") => step' = step + 1
    /\ (pc /= "analyze_communities" /\ pc' = "analyze_communities") =>
          pc = "analyze_graph" /\ step = 10

\* the copies of community detection
Snapshot(g) ==
    /\ g.analyzed
    /\ g.subgraphs = <<>>
    /\ g.snips = <<>>
    /\ g.connectivity = None
    /\ \A i \in 0..6 : Done(g, i)

\* C14: analyze_graph runs node degrees, adjacency matrix, edge count, clustering
\* coefficients, shortest paths, betweenness, closeness, Euler, Hamilton and bipartite in
\* this order, and community detection after all of them, on the top-level graph only:
\* every copy that community detection makes has analyzed = True, no subgraphs, no snips
\* and a connectivity of None.
C14_StepOrder ==
    /\ [][OneStepAtATime]_vars
    /\ [](StepsInOrder /\ \A g \in Copies : Snapshot(g))

\* C14 at work: community detection has returned to analyze_graph with copies kept
C14_Witness ==
    /\ pc = "analyzed"
    /\ graphs[current_graph].analyzed
    /\ Len(graphs[current_graph].subgraphs) >= 1

\* the root graph is the K_{x,y} of generate_knm_graph and its analysis has come past
\* calculate_shortest_paths_for_all_nodes, which sets the diameter
KnmAnalysed(x, y) ==
    /\ pc \in {"analyze_graph", "analyze_communities", "analyzed"}
    /\ step >= 5
    /\ graphs[current_graph].name = <<"k">> \o str(x) \o <<",">> \o str(y)

\* C15 as stated: the diameter of an analysed K_{x,y}, x, y >= 1, is 2 when x >= 2 and
\* y >= 2, and 1 when x = 1 or y = 1.
C15_KnmDiameter ==
    \A x, y \in 1..MaxKnm :
        KnmAnalysed(x, y) =>
            graphs[current_graph].diameter = Some(IF x >= 2 /\ y >= 2 THEN 2 ELSE 1)

\* C15, amended: the diameter of an analysed K_{x,y}, x, y >= 1, is 2 when x >= 2 or
\* y >= 2, and 1 when x = 1 and y = 1.
C15_KnmDiameterStar ==
    \A x, y \in 1..MaxKnm :
        KnmAnalysed(x, y) =>
            graphs[current_graph].diameter = Some(IF x >= 2 \/ y >= 2 THEN 2 ELSE 1)

\* C15 at work: the star K_{1,2}, analysed, with the diameter 2
C15_Witness ==
    /\ KnmAnalysed(1, 2)
    /\ Len(graphs[current_graph].nodes) = 3
    /\ graphs[current_graph].diameter = Some(2)

\* the root graph is the C_n of generate_c_graph
IsCn(n) == graphs /= <<>> /\ graphs[current_graph].name = <<"c">> \o str(n)

\* the analysis of the root graph has come past analyze_hamilton
CycleAnalysed(n) ==
    /\ IsCn(n)
    /\ pc \in {"analyze_graph", "analyze_communities", "analyzed"}
    /\ step >= 9

\* the Euler circuit is found, and the Hamilton circuit is the node list followed by its
\* first node
CycleRight(g) ==
    /\ g.euler_circuit /= None
    /\ g.hamilton_circuit /= None
    /\ g.hamilton_circuit[1] = g.nodes \o <<g.nodes[1]>>

\* the analysis of C_n gets to analyze_hamilton and finds the circuits
CycleCircuits(n) ==
    /\ IsCn(n) => pc /= "raised"
    /\ CycleAnalysed(n) => CycleRight(graphs[current_graph])

\* C16: for every cycle graph C_n of generate_c_graph, whatever n, the analysis sets
\* euler_circuit, and sets hamilton_circuit to the nodes in cycle order followed by the
\* first node.
C16_Cycle == \A n \in 0..MaxC : CycleCircuits(n)

\* the part of C16 that the code keeps: the cycles of three nodes or more
C16_CycleFromThree == \A n \in 3..MaxC : CycleCircuits(n)

\* the cycles of fewer than three nodes, one at a time
C16_CycleZero == CycleCircuits(0)
C16_CycleOne == CycleCircuits(1)
C16_CycleTwo == CycleCircuits(2)

\* the i-th word (i from 0) of the reflected Gray code of n bits, i XOR (i >> 1): its
\* k-th bit from the left is the sum modulo 2 of two neighbouring bits of i
GrayWord(n, i) ==
    [k \in 1..n |-> Digits[(((i \div Pow2(n - k)) + (i \div Pow2(n - k + 1))) % 2) + 1]]

BitStrings(n) == [1..n -> {"0", "1"}]

\* the root graph is the Q_n of generate_q_graph, and its analysis has come past
\* analyze_hamilton
HypercubeAnalysed(n) ==
    /\ pc \in {"analyze_graph", "analyze_communities", "analyzed"}
    /\ step >= 9
    /\ graphs[current_graph].name = <<"q">> \o str(n)
    /\ {heap[a].name : a \in Range(graphs[current_graph].nodes)} = BitStrings(n)

OneBitApart(v, w) == Cardinality({k \in 1..Len(v) : v[k] /= w[k]}) = 1

GrayPath(g, n) ==
    /\ g.hamilton_path /= None
    /\ Len(g.hamilton_path[1]) = Pow2(n)
    /\ \A i \in 1..Pow2(n) : heap[g.hamilton_path[1][i]].name = GrayWord(n, i - 1)
    /\ \A i \in 1..(Pow2(n) - 1) :
          OneBitApart(heap[g.hamilton_path[1][i]].name, heap[g.hamilton_path[1][i + 1]].name)
    /\ ListsAllNodes(g, g.hamilton_path[1])
    /\ IsWalk(g.hamilton_path[1])
    /\ g.hamilton_circuit = Some(Append(g.hamilton_path[1], g.hamilton_path[1][1]))

\* C17: for every hypercube Q_n, n >= 1, of generate_q_graph, the analysis sets
\* hamilton_path to the reflected Gray code of the 2^n node names (00, 01, 11, 10 for
\* Q_2), whose consecutive entries differ in one bit and are adjacent in the graph, so
\* that it is a Hamilton path, and sets hamilton_circuit to the path followed by its first
\* node.
C17_GrayCode ==
    \A n \in 1..MaxQ : HypercubeAnalysed(n) => GrayPath(graphs[current_graph], n)

\* C17 at work: Q_2 analysed, its path 00, 01, 11, 10
C17_Witness ==
    /\ HypercubeAnalysed(2)
    /\ graphs[current_graph].hamilton_path /= None
    /\ [i \in 1..4 |-> heap[graphs[current_graph].hamilton_path[1][i]].name]
          = << <<"0", "0">>, <<"0", "1">>, <<"1", "1">>, <<"1", "0">> >>

\* C18: analyze_graph runs to completion on every graph that load_from_file or a
\* generator constructs, the graph of no nodes and the single isolated node included: no
\* step of the analysis raises an error.
C18_AnalysisTotal == pc /= "raised"

\* the part of C18 that the code keeps: a graph that has a node and no self-loop is
\* analysed without an error
C18_AnalysisTotalLoopFree ==
    pc = "raised" =>
        \/ graphs[current_graph].nodes = <<>>
        \/ ~LoopFree(graphs[current_graph])

\* the graph of no nodes, one case of C18: its analysis does not raise
C18_EmptyGraphAnalysed == pc = "raised" => graphs[current_graph].nodes /= <<>>

\* the nodes of `g` that a walk of at most k edges from the node a reaches
RECURSIVE Grown(_, _, _)
Grown(g, reached, k) ==
    IF k = 0 THEN reached
    ELSE Grown(g, reached \cup {b \in Range(g.nodes) : \E c \in reached : Adjacent(c, b)}, k - 1)
Within(g, a, k) == Grown(g, {a}, k)

\* the least number of edges of a walk from a to b, b being reachable from a
Hops(g, a, b) == CHOOSE k \in 0..Len(g.nodes) : b \in Within(g, a, k) /\ \A m \in 0..(k - 1) : b \notin Within(g, a, m)

\* dijsktra returns the target if it is reachable from start and None if not
ReturnsTarget(g) ==
    returned = Returned("dijsktra",
                        IF search.finish \in Within(g, search.start, Len(g.nodes))
                        THEN search.finish ELSE NoNode)

\* the parent links from the target back, reversed, are a shortest path from start
ShortestByParents(g) ==
    (search.finish /= NoNode /\ returned = Returned("dijsktra", search.finish)) =>
        /\ get_path_from_final_node(heap, search.finish) /= None
        /\ LET path == get_path_from_final_node(heap, search.finish)[1]
           IN  /\ path[1] = search.start
               /\ path[Len(path)] = search.finish
               /\ IsWalk(path)
               /\ Len(path) - 1 = Hops(g, search.start, search.finish)

\* in the run so far no node has been dequeued twice, and start has no parent
DequeuedOnce ==
    pc \in {"dijsktra", "searched"} =>
        /\ Distinct(search.dequeued)
        /\ heap[search.start].parent = NoNode

\* C19: dijsktra(start, finish) returns the target if and only if it is reachable from
\* start, and None otherwise; when it returns the target, the parent links from the target
\* back to the node without parent, reversed, start at start, end at the target, go from
\* neighbor to neighbor and have the least possible number of edges; and within the run
\* no node is dequeued twice and the parent of start stays None.
C19_Dijsktra ==
    /\ DequeuedOnce
    /\ pc = "searched" =>
          /\ ReturnsTarget(graphs[current_graph])
          /\ ShortestByParents(graphs[current_graph])

\* the run step by step ends as the operator dijsktra of the analysis does
C19_SameAsAnalysis ==
    pc = "searched" =>
        LET r == dijsktra(heap, graphs[current_graph], search.start, search.finish, Infinity, FALSE)
        IN  /\ r.heap = heap
            /\ returned = Returned("dijsktra", r.node)

\* C19 at work: a target three edges away was returned after other nodes were dequeued
C19_Witness ==
    /\ pc = "searched"
    /\ search.finish /= NoNode
    /\ returned = Returned("dijsktra", search.finish)
    /\ Hops(graphs[current_graph], search.start, search.finish) = 3
    /\ Len(search.dequeued) >= 4

\* C19 at work: a target that cannot be reached, and None returned
C19_WitnessNone ==
    /\ pc = "searched"
    /\ search.finish /= NoNode
    /\ returned = Returned("dijsktra", NoNode)
    /\ Len(search.dequeued) >= 2

\* the searches that analyze_euler makes from this state, one set for each outcome of its
\* random choices: the path search from starts[1] and, with no odd node, the circuit
\* search from starts[2]
EulerSearches ==
    IF ~(AtStep(7) /\ ~analyze_euler_raises(heap, graphs[current_graph])) THEN {}
    ELSE UNION {
        (IF starts[1] = NoNode THEN {}
         ELSE {depth_first_search(heap, graphs[current_graph], starts[1], <<starts[1]>>, <<>>,
                                  "ep", 0, {}, NoNode)})
        \cup
        (IF starts[2] = NoNode \/ Len(odd_nodes(heap, graphs[current_graph])) /= 0 THEN {}
         ELSE {depth_first_search(heap, graphs[current_graph], starts[2], <<starts[2]>>, <<>>,
                                  "ec", 0, {}, NoNode)}) :
        starts \in EulerStarts(heap, graphs[current_graph])}

\* the edges of the graph that a step has not consumed yet, and those among them at the
\* node the step goes to
Unconsumed(g, s) == g.number_of_edges - Len(s.edges)
UnconsumedAt(s) == heap[s.to].degree - TimesIn(s.to, s.edges)

\* C20: an Euler search does not step to a neighbor that has exactly one unconsumed
\* incident edge while more than one edge of the graph is unconsumed; it takes such a
\* step only for the last edge of the walk.
C20_EulerPruning ==
    \A r \in EulerSearches : \A s \in r.steps :
        Unconsumed(graphs[current_graph], s) > 1 => UnconsumedAt(s) /= 1

\* the partition counts of the root graph and of the graphs it keeps, in the order kept
PartitionCounts(root) ==
    <<Len(root.partitions)>> \o [k \in 1..Len(root.subgraphs) |-> Len(root.subgraphs[k].partitions)]

StrictlyIncreasing(counts) == \A k \in 1..(Len(counts) - 1) : counts[k] < counts[k + 1]

\* C21: the partition counts of the kept copies increase strictly: the first graph in
\* subgraphs has more partitions than the root, every later one more than the one kept
\* before it; a copy that has no more partitions than the one kept last is not kept.
C21_StrictlyMorePartitions ==
    \A k \in 1..Len(graphs) : StrictlyIncreasing(PartitionCounts(graphs[k]))

\* the part of C21 that the code keeps: every kept copy has more partitions than the root
C21_MoreThanRoot ==
    \A k \in 1..Len(graphs) : \A m \in 1..Len(graphs[k].subgraphs) :
        Len(graphs[k].subgraphs[m].partitions) > Len(graphs[k].partitions)

\* the graphs whose analysis has come past analyze_cluster_coefficients, and past
\* analyze_closessness
ClusterDone == (IF step >= 4 THEN {graphs[current_graph]} ELSE {}) \cup Copies
ClosenessDone == (IF step >= 7 THEN {graphs[current_graph]} ELSE {}) \cup Copies

\* the number of edges among the neighbors of the node a
EdgesAmongNeighbors(a) ==
    Cardinality({e \in SUBSET Range(heap[a].neighbors) :
                    Cardinality(e) = 2 /\ \A x, y \in e : x /= y => Adjacent(x, y)})

\* the clustering coefficient of the node a is as C24 says
ClusteringRight(a) ==
    LET cc == heap[a].clustering_coefficient
        d == heap[a].degree
    IN  IF d = 0 THEN cc = None
        ELSE /\ cc /= None
             /\ IF d = 1 THEN cc[1].num = 0
                ELSE cc[1].num * d * (d - 1) = 2 * EdgesAmongNeighbors(a) * cc[1].den

\* C24: after analyze_cluster_coefficients a node of degree 0 has the clustering
\* coefficient None, a node of degree 1 has 0, and a node of degree d >= 2 has the number
\* of edges among its neighbors divided by d(d-1)/2.
C24_Clustering ==
    \A g \in ClusterDone : \A a \in Range(g.nodes) : ClusteringRight(a)

\* the first part of C24 alone: a node of degree 0 has the clustering coefficient None
C24_IsolatedNull ==
    \A g \in ClusterDone : \A a \in Range(g.nodes) :
        heap[a].degree = 0 => heap[a].clustering_coefficient = None

\* the part of C24 that the code keeps: the nodes that have a neighbor, in a graph with
\* no self-loop and no doubled edge
C24_ClusteringOfNeighbors ==
    \A g \in ClusterDone :
        (LoopFree(g) /\ \A a \in Range(g.nodes) : Distinct(heap[a].neighbors)) =>
            \A a \in Range(g.nodes) : heap[a].degree > 0 => ClusteringRight(a)

\* `min` and `max` bound the values that are not None, and both are among them
Bounds(values, min, max) ==
    /\ min /= None /\ max /= None
    /\ \A v \in values \ {None} : ~Less(v[1], min[1]) /\ ~Less(max[1], v[1])
    /\ \E v \in values \ {None} : ~Less(v[1], min[1]) /\ ~Less(min[1], v[1])
    /\ \E v \in values \ {None} : ~Less(v[1], max[1]) /\ ~Less(max[1], v[1])

HasNeighbors(g) == \E a \in Range(g.nodes) : heap[a].neighbors /= <<>>

\* C26: after an analysis of a graph with a node that is not isolated, min_closeness and
\* max_closeness bound the closeness of every node and are the closeness of some node,
\* and so do min_cluster_coefficient and max_cluster_coefficient for the clustering
\* coefficients.
C26_Extremes ==
    /\ \A g \in ClosenessDone : HasNeighbors(g) =>
          Bounds({heap[a].closeness : a \in Range(g.nodes)}, g.min_closeness, g.max_closeness)
    /\ \A g \in ClusterDone : HasNeighbors(g) =>
          Bounds({heap[a].clustering_coefficient : a \in Range(g.nodes)},
                 g.min_cluster_coefficient, g.max_cluster_coefficient)

\* the two halves of C26, one at a time
C26_ClosenessExtremes ==
    \A g \in ClosenessDone : HasNeighbors(g) =>
        Bounds({heap[a].closeness : a \in Range(g.nodes)}, g.min_closeness, g.max_closeness)
C26_ClusterExtremes ==
    \A g \in ClusterDone : HasNeighbors(g) =>
        Bounds({heap[a].clustering_coefficient : a \in Range(g.nodes)},
               g.min_cluster_coefficient, g.max_cluster_coefficient)

\* the part of C26 that the code keeps: the maxima
Maximum(values, max) ==
    /\ max /= None
    /\ \A v \in values \ {None} : ~Less(max[1], v[1])
    /\ max \in values

C26_Maxima ==
    /\ \A g \in ClosenessDone : HasNeighbors(g) =>
          Maximum({heap[a].closeness : a \in Range(g.nodes)}, g.max_closeness)
    /\ \A g \in ClusterDone : HasNeighbors(g) =>
          Maximum({heap[a].clustering_coefficient : a \in Range(g.nodes)}, g.max_cluster_coefficient)

\* C28: the graphs that generate_graph adds have names of their own: a call that returns
\* True appends a graph whose name no graph of the manager has, a random graph (types kr
\* and mr) being named with the count of the random graphs in memory.
C28_DistinctNames ==
    [][returned' = Succeeded("generate_graph") => Appended.name \notin Names]_vars

\* the name of a random graph never counts the random graphs in memory: it is random-0
C28_RandomZero ==
    \A k \in 1..Len(graphs) :
        (Len(graphs[k].name) >= 6 /\ SubSeq(graphs[k].name, 1, 6) = <<"r", "a", "n", "d", "o", "m">>)
            => graphs[k].name = <<"r", "a", "n", "d", "o", "m", "-", "0">>

\* a call dijsktra(start) without target has returned
SearchedAll == pc = "searched" /\ search.finish = NoNode

\* the distance of the node a is its least number of edges from start, or infinity
HopDistance(g, a) ==
    heap[a].distance = (IF a \in Within(g, search.start, Len(g.nodes))
                        THEN Hops(g, search.start, a) ELSE Infinity)

\* C30: after dijsktra(start) with no target and no bound, the distance of every node
\* that can be reached from start is its least number of edges from start, that of start
\* is 0 and that of every other node is infinity.
C30_HopDistance ==
    SearchedAll => \A a \in Range(graphs[current_graph].nodes) : HopDistance(graphs[current_graph], a)

\* the distance that the code sets: start has 0, a node that cannot be reached infinity,
\* and every other node the count of the nodes dequeued when it was met first
C30_DequeueCount ==
    SearchedAll =>
        \A a \in Range(graphs[current_graph].nodes) :
            IF a = search.start THEN heap[a].distance = 0
            ELSE IF a \notin Within(graphs[current_graph], search.start, Len(graphs[current_graph].nodes))
            THEN heap[a].distance = Infinity
            ELSE /\ heap[a].parent /= NoNode
                 /\ \E k \in 1..Len(search.dequeued) :
                       search.dequeued[k] = heap[a].parent /\ heap[a].distance = k

\* the graphs whose analysis has come past analyze_betweeness_centrality
BetweenessDone == (IF step >= 6 THEN {graphs[current_graph]} ELSE {}) \cup Copies

\* the pairs of nodes of g that are not adjacent and reach each other
FarPairs(g) ==
    {pair \in {{a, b} : a, b \in Range(g.nodes)} :
        \E a, b \in pair : /\ pair = {a, b} /\ a /= b /\ ~Adjacent(a, b)
                           /\ b \in Reachable(g, {a})}

\* the number of the paths with the least number of edges between the nodes of each pair
RECURSIVE ShortestPathCount(_, _)
ShortestPathCount(g, pairs) ==
    IF pairs = {} THEN 0
    ELSE LET pair == CHOOSE p \in pairs : TRUE
             a == CHOOSE x \in pair : TRUE
             b == CHOOSE x \in pair : x /= a
         IN  Cardinality(Walks(g, a, b, Shortest(g, a, b))) + ShortestPathCount(g, pairs \ {pair})

OneKeyPerEdge(dict) ==
    /\ Len(dict) = Cardinality(Keys(dict))
    /\ \A key \in Keys(dict) : key[1] /= key[2] => <<key[2], key[1]>> \notin Keys(dict)

UnitRatio(r) == ~Less(r, Ratio(0, 1)) /\ ~Less(Ratio(1, 1), r)

\* C25: after analyze_betweeness_centrality, total_paths is twice the number of the
\* shortest paths between the pairs of nodes that are not adjacent and reach each other;
\* every undirected edge has at most one key in edge_bridges and in edge_betweeness; no
\* node and no edge has more paths counted than total_paths, and every node betweenness
\* and edge betweenness lies between 0 and 1.
C25_TotalPaths ==
    \A g \in BetweenessDone :
        /\ g.total_paths = Some(2 * ShortestPathCount(g, FarPairs(g)))
        /\ OneKeyPerEdge(g.edge_bridges)
        /\ OneKeyPerEdge(g.edge_betweeness)
        /\ \A a \in Range(g.nodes) :
              /\ Cardinality(heap[a].bridge_paths) <= g.total_paths[1]
              /\ heap[a].betweeness /= None /\ UnitRatio(heap[a].betweeness[1])
        /\ \A k \in 1..Len(g.edge_bridges) : Cardinality(g.edge_bridges[k].value) <= g.total_paths[1]
        /\ \A k \in 1..Len(g.edge_betweeness) : UnitRatio(g.edge_betweeness[k].value)

\* C25 at work: an analysed graph with several shortest paths between two of its nodes,
\* an edge that lies on some but not all of the paths and a node that lies on some
C25_Witness ==
    /\ step >= 6
    /\ graphs[current_graph].total_paths /= None
    /\ \E a, b \in Range(graphs[current_graph].nodes) :
          /\ {a, b} \in FarPairs(graphs[current_graph])
          /\ Cardinality(Walks(graphs[current_graph], a, b, Shortest(graphs[current_graph], a, b))) >= 2
    /\ \E k \in 1..Len(graphs[current_graph].edge_betweeness) :
          /\ Less(Ratio(0, 1), graphs[current_graph].edge_betweeness[k].value)
          /\ Less(graphs[current_graph].edge_betweeness[k].value, Ratio(1, 1))
    /\ \E a \in Range(graphs[current_graph].nodes) : Cardinality(heap[a].bridge_paths) >= 1

\* the generate step of the menu has returned True
MenuSucceeded == returned = Returned("StringManager.generate_graph", TRUE)

\* the generate step of the menu has called analyze_graph
MenuAnalysis == menu /= None /\ pc \in {"analyze_graph", "analyze_communities", "analyzed"}

\* C29: when the generate step of the menu returns True, the graph it generated is in the
\* list of the manager and is the current graph, and the analysis that the step started
\* runs on the generated graph, not on the graph that was current before.
C29_MenuGenerated ==
    MenuSucceeded =>
        /\ \E k \in 1..Len(graphs) : /\ graphs[k].name = menu[1].graph.name
                                      /\ graphs[k].nodes = menu[1].graph.nodes
                                      /\ graphs[k].analyzed
        /\ graphs[current_graph].name = menu[1].graph.name
        /\ graphs[current_graph].nodes = menu[1].graph.nodes

\* what the generate step does: the list and the current graph stay as they were, no graph
\* of the manager holds a node of the generated graph, and the analysis runs on the graph
\* that was current before
C29_CurrentReanalysed ==
    (MenuAnalysis \/ MenuSucceeded) =>
        /\ menu[1].before /= None
        /\ graphs[current_graph].name = menu[1].before[1].name
        /\ Range(graphs[current_graph].nodes) = Range(menu[1].before[1].nodes)
        /\ \A k \in 1..Len(graphs) : Range(graphs[k].nodes) \cap Range(menu[1].graph.nodes) = {}

\* the edges of g, each as the set of the names of its ends
NamedEdges(g) == {{heap[a].name : a \in e} : e \in EdgesOf(g)}

\* a second full analysis of a graph that was analysed has ended
AnalysedAgain ==
    /\ pc = "analyzed"
    /\ menu /= None
    /\ menu[1].before /= None
    /\ menu[1].before[1].analyzed

\* C27: a second full analysis of the same graph leaves subgraphs and snips with the
\* lengths they had after the first, and every snapshot with the edges it had.
C27_Idempotent ==
    AnalysedAgain =>
        /\ Len(graphs[current_graph].subgraphs) = Len(menu[1].before[1].subgraphs)
        /\ Len(graphs[current_graph].snips) = Len(menu[1].before[1].snips)
        /\ \A k \in 1..Len(menu[1].before[1].subgraphs) :
              /\ k <= Len(graphs[current_graph].subgraphs)
              /\ NamedEdges(graphs[current_graph].subgraphs[k]) = NamedEdges(menu[1].before[1].subgraphs[k])

\* what the second analysis does: the snapshots and snips of the first stay where they
\* were, and those of the second are appended after them
IsPrefix(s, t) == Len(s) <= Len(t) /\ SubSeq(t, 1, Len(s)) = s
C27_Accumulated ==
    AnalysedAgain =>
        /\ IsPrefix(menu[1].before[1].subgraphs, graphs[current_graph].subgraphs)
        /\ IsPrefix(menu[1].before[1].snips, graphs[current_graph].snips)
        /\ Len(graphs[current_graph].subgraphs) = Len(graphs[current_graph].snips)

\* analyze_communities has run on the graphs of the manager once at most
SingleRun == menu = None \/ menu[1].before = None \/ ~menu[1].before[1].analyzed

\* the edges that snips[1..k] of root name, each as the set of the names of its ends
SnippedNames(root, k) ==
    {{heap[root.snips[m][n][1]].name, heap[root.snips[m][n][2]].name} :
        <<m, n>> \in {<<m, n>> \in (1..k) \X (1..MaxAnalyzed * MaxAnalyzed) : n <= Len(root.snips[m])}}

EdgesBefore(root, k) == IF k = 1 THEN root.number_of_edges ELSE root.subgraphs[k - 1].number_of_edges

\* C22: in a single run of analyze_communities snips and subgraphs have the same length;
\* every snips[k] is not empty and holds pairs of nodes of the root that are adjacent in
\* the root; the edges of subgraphs[k], by the names of their ends, are the edges of the
\* root without those of snips[1..k]; and every kept copy has fewer edges than the one
\* before it and than the root.
C22_SnipsAndSubgraphs ==
    SingleRun =>
        \A g \in 1..Len(graphs) :
            /\ Len(graphs[g].snips) = Len(graphs[g].subgraphs)
            /\ \A k \in 1..Len(graphs[g].snips) :
                  /\ graphs[g].snips[k] /= <<>>
                  /\ \A n \in 1..Len(graphs[g].snips[k]) :
                        /\ graphs[g].snips[k][n][1] \in Range(graphs[g].nodes)
                        /\ graphs[g].snips[k][n][2] \in Range(graphs[g].nodes)
                        /\ Adjacent(graphs[g].snips[k][n][1], graphs[g].snips[k][n][2])
            /\ \A k \in 1..Len(graphs[g].subgraphs) :
                  /\ k <= Len(graphs[g].snips)
                  /\ NamedEdges(graphs[g].subgraphs[k]) = NamedEdges(graphs[g]) \ SnippedNames(graphs[g], k)
                  /\ graphs[g].subgraphs[k].number_of_edges < EdgesBefore(graphs[g], k)
                  /\ graphs[g].subgraphs[k].number_of_edges < graphs[g].number_of_edges

\* C22 at work: a first run has ended with two copies kept
C22_Witness ==
    /\ pc = "analyzed"
    /\ menu = None
    /\ Len(graphs[current_graph].subgraphs) >= 2

\* and a first run has ended with a copy kept after two passes
C22_WitnessTwoSnips ==
    /\ pc = "analyzed"
    /\ menu = None
    /\ \E k \in 1..Len(graphs[current_graph].snips) : Len(graphs[current_graph].snips[k]) >= 2

\* the while loop of analyze_communities is about to run a pass
PassAhead == pc = "analyze_communities" /\ check_if_snip(comm.current_graph)

\* C23: analyze_communities terminates: every pass of its loop finds edge_betweeness not
\* empty and deletes one edge of the copy without an exception, and the loop runs at
\* most as many passes as the root has edges.
C23_Terminates ==
    /\ [](PassAhead =>
            /\ comm.current_graph.edge_betweeness /= <<>>
            /\ edge_to_delete(comm.current_graph)[2] \in
                    Range(heap[edge_to_delete(comm.current_graph)[1]].neighbors))
    /\ [](pc = "analyze_communities" => comm.i - 1 <= graphs[current_graph].number_of_edges)
    /\ [][pc = "analyze_communities" =>
            /\ pc' /= "raised"
            /\ comm'.i = comm.i + 1 =>
                  comm'.current_graph.number_of_edges = comm.current_graph.number_of_edges - 1]_vars

\* C23 at work: the loop has ended after two passes
C23_Witness ==
    /\ pc = "analyze_communities"
    /\ comm.i - 1 >= 2
    /\ ~check_if_snip(comm.current_graph)

====
